---- MODULE Spec2Model ----
(***************************************************************************)
(* Model of the fastapi-qengine filter pipeline:                           *)
(*   parse -> normalize -> validate -> build AST -> optimize               *)
(* (QueryEngine.process_filter) and of the components it calls.            *)
(*                                                                         *)
(* Python values are tagged records:                                       *)
(*   None   [t |-> "none"]            bool  [t |-> "bool", b |-> TRUE]      *)
(*   int    [t |-> "int", n |-> 3]    str   [t |-> "str", s |-> <<"a">>]    *)
(*   list   [t |-> "list", items |-> <<v1, v2>>]                            *)
(*   dict   [t |-> "dict", items |-> <<[k |-> key, v |-> value], ...>>]     *)
(* A Python string is a sequence of one-character strings; a dict keeps    *)
(* its insertion order and has no two entries with the same key.           *)
(***************************************************************************)
EXTENDS Integers, Sequences, FiniteSets, TLC

VARIABLES
    filter_input,      \* the raw argument of process_filter
    security_policy,   \* the SecurityPolicy of the engine (read-only)
    config,            \* the QEngineConfig fields the pipeline reads
    pc,                \* position of process_filter
    parsed_input,      \* value returned by parser.parse
    normalized_input,  \* value returned by normalizer.normalize
    ast,               \* value returned by ast_builder.build
    optimized_ast,     \* value returned by optimizer.optimize
    ast_id,            \* identity of the object build returned (0: none)
    optimized_ast_id,  \* identity of the object optimize returned (0: none)
    raised,            \* the exception that left process_filter, or NoError
    calls,             \* history: the stage calls made, each with its argument
    _operators,        \* operator_registry._operators
    _compilers,        \* compiler_registry._compilers
    _instances,        \* compiler_registry._instances
    last_call,         \* history: the last registry call that returned or raised
    threads,           \* the registry call each thread is in, with its locals
    adapter,           \* self.adapter of the cached BeanieQueryCompiler
    compiled,          \* value returned by the last compile_ast
    compile_calls,     \* number of compile_ast calls made
    response,          \* what __call__ returned or raised
    validation_rules,  \* validator.validation_rules
    validation,        \* history: the last validate_ast_node call and its result
    heap               \* the mutable objects callers and adapters share, by identity

vars == <<filter_input, security_policy, config, pc, parsed_input,
          normalized_input, ast, optimized_ast, ast_id, optimized_ast_id,
          raised, calls, _operators, _compilers, _instances, last_call,
          threads, adapter, compiled, compile_calls, response,
          validation_rules, validation, heap>>

requestVars == <<adapter, compiled, compile_calls, response, heap>>

validatorVars == <<validation_rules, validation>>

pipelineVars == <<filter_input, security_policy, config, pc, parsed_input,
                  normalized_input, ast, optimized_ast, ast_id,
                  optimized_ast_id, raised, calls, adapter, compiled,
                  compile_calls, response, validation_rules, validation,
                  heap>>

registryVars == <<_operators, _compilers, _instances, last_call, threads>>

(***************************************************************************)
(* Python values                                                           *)
(***************************************************************************)
None == [t |-> "none"]
PyBool(b) == [t |-> "bool", b |-> b]
PyInt(n) == [t |-> "int", n |-> n]
PyStr(s) == [t |-> "str", s |-> s]
PyList(items) == [t |-> "list", items |-> items]
PyDict(items) == [t |-> "dict", items |-> items]
Entry(k, v) == [k |-> k, v |-> v]

IsDict(v) == v.t = "dict"
IsList(v) == v.t = "list"
IsStr(v) == v.t = "str"

\* isinstance(v, int): bool is a subclass of int
IsIntInstance(v) == v.t \in {"int", "bool"}
IntOf(v) == IF v.t = "int" THEN v.n ELSE IF v.b THEN 1 ELSE 0

Keys(d) == {d.items[i].k : i \in 1..Len(d.items)}

(***************************************************************************)
(* Strings                                                                 *)
(***************************************************************************)
IsSpace(c) == c = " "

startswith(s, c) == Len(s) > 0 /\ s[1] = c

RECURSIVE lstrip(_, _)
lstrip(s, c) ==
    IF Len(s) > 0 /\ s[1] = c THEN lstrip(Tail(s), c) ELSE s

RECURSIVE LStripSpace(_)
LStripSpace(s) ==
    IF Len(s) > 0 /\ IsSpace(s[1]) THEN LStripSpace(Tail(s)) ELSE s

RECURSIVE RStripSpace(_)
RStripSpace(s) ==
    IF Len(s) > 0 /\ IsSpace(s[Len(s)])
    THEN RStripSpace(SubSeq(s, 1, Len(s) - 1))
    ELSE s

strip(s) == RStripSpace(LStripSpace(s))

\* s.split(c): the pieces of s between the occurrences of c ("" gives [""])
RECURSIVE split(_, _)
split(s, c) ==
    IF \E i \in 1..Len(s) : s[i] = c
    THEN LET i == CHOOSE i \in 1..Len(s) :
                      s[i] = c /\ \A j \in 1..(i - 1) : s[j] # c
         IN  <<SubSeq(s, 1, i - 1)>> \o split(SubSeq(s, i + 1, Len(s)), c)
    ELSE <<s>>

(***************************************************************************)
(* Operator tokens (core/types.py is not part of the sources; the two      *)
(* closed enumerations are the ones the specification lists)               *)
(***************************************************************************)
opEq == <<"$", "e", "q">>
opNe == <<"$", "n", "e">>
opGt == <<"$", "g", "t">>
opGte == <<"$", "g", "t", "e">>
opLt == <<"$", "l", "t">>
opLte == <<"$", "l", "t", "e">>
opIn == <<"$", "i", "n">>
opNin == <<"$", "n", "i", "n">>
opRegex == <<"$", "r", "e", "g", "e", "x">>
opExists == <<"$", "e", "x", "i", "s", "t", "s">>
opSize == <<"$", "s", "i", "z", "e">>
opType == <<"$", "t", "y", "p", "e">>
opAnd == <<"$", "a", "n", "d">>
opOr == <<"$", "o", "r">>
opNor == <<"$", "n", "o", "r">>

ComparisonOperator ==
    {opEq, opNe, opGt, opGte, opLt, opLte, opIn, opNin, opRegex, opExists,
     opSize, opType}

LogicalOperator == {opAnd, opOr, opNor}

(***************************************************************************)
(* Errors.  A raising function returns NoError or the exception raised.    *)
(* A message is kept as its fixed part (m) and the name it quotes (arg).   *)
(***************************************************************************)
NoError == [kind |-> "ok"]
SecurityError(m, arg) == [kind |-> "SecurityError", m |-> m, arg |-> arg]
ValidationError(m, arg) == [kind |-> "ValidationError", m |-> m, arg |-> arg]
ParseError(m, arg) == [kind |-> "ParseError", m |-> m, arg |-> arg]
IsError(e) == e.kind # "ok"

(***************************************************************************)
(* SecurityPolicy: allowed_fields, blocked_fields and allowed_operators    *)
(* are None or a collection, [t |-> "set", elems |-> S].                   *)
(***************************************************************************)
PySet(S) == [t |-> "set", elems |-> S]

\* Python truthiness of an optional collection: None and empty are falsy
Truthy(c) == c.t = "set" /\ c.elems # {}

Contains(c, x) == c.t = "set" /\ x \in c.elems

(***************************************************************************)
(* FilterValidator (core/validator.py).  p is self.security_policy.        *)
(***************************************************************************)
\* ComparisonOperator(operator), None on ValueError
_get_operator_enum(operator) ==
    IF operator \in ComparisonOperator
    THEN [t |-> "enum", value |-> operator]
    ELSE None

\* re.compile(value) succeeds: over the alphabet of the model a pattern is
\* malformed exactly when it opens a group or a class, which nothing closes
re_compile_ok(value) == \A i \in 1..Len(value) : value[i] \notin {"(", "["}

_validate_array_operator(p, operator, value) ==
    IF ~IsList(value)
    THEN ValidationError("requires an array value", operator)
    ELSE IF Len(value.items) > p.max_array_size
    THEN SecurityError("Array size exceeds maximum", <<>>)
    ELSE NoError

_validate_regex_operator(p, operator, value) ==
    IF ~IsStr(value)
    THEN ValidationError("requires a string value", operator)
    ELSE IF ~re_compile_ok(value.s)
    THEN ValidationError("Invalid regex pattern", <<>>)
    ELSE NoError

_validate_exists_operator(p, operator, value) ==
    IF value.t # "bool"
    THEN ValidationError("requires a boolean value", operator)
    ELSE NoError

_validate_size_operator(p, operator, value) ==
    IF ~IsIntInstance(value) \/ IntOf(value) < 0
    THEN ValidationError("requires a non-negative integer", operator)
    ELSE NoError

\* variant that consults the whitelist first and lets a whitelisted name through
_validate_field_access_WhitelistFirst(p, field_name) ==
    IF Truthy(p.allowed_fields) /\ Contains(p.allowed_fields, field_name)
    THEN NoError
    ELSE IF Truthy(p.blocked_fields) /\ Contains(p.blocked_fields, field_name)
    THEN SecurityError("Access to field is blocked", field_name)
    ELSE IF Truthy(p.allowed_fields)
    THEN SecurityError("Access to field is not allowed", field_name)
    ELSE IF Len(field_name) = 0
    THEN ValidationError("Field names must be non-empty strings", <<>>)
    ELSE NoError

_validate_field_access(p, field_name) ==
    IF Truthy(p.blocked_fields) /\ Contains(p.blocked_fields, field_name)
    THEN SecurityError("Access to field is blocked", field_name)
    ELSE IF Truthy(p.allowed_fields) /\ ~Contains(p.allowed_fields, field_name)
    THEN SecurityError("Access to field is not allowed", field_name)
    ELSE IF Len(field_name) = 0
    THEN ValidationError("Field names must be non-empty strings", <<>>)
    ELSE NoError

RECURSIVE _validate_where_clause(_, _, _)
RECURSIVE _validate_operator(_, _, _, _)
RECURSIVE _validate_logical_operator(_, _, _, _)
RECURSIVE _validate_field_condition_value(_, _, _, _)
RECURSIVE WhereItemsFrom(_, _, _, _)
RECURSIVE LogicalItemsFrom(_, _, _, _)
RECURSIVE OperatorItemsFrom(_, _, _, _)

\* the loop of _validate_where_clause from entry i on: the first exception
WhereItemsFrom(p, items, i, depth) ==
    IF i > Len(items) THEN NoError
    ELSE LET key == items[i].k
             value == items[i].v
             r == IF startswith(key, "$")
                  THEN _validate_operator(p, key, value, depth)
                  ELSE LET a == _validate_field_access(p, key)
                       IN  IF IsError(a) THEN a
                           ELSE _validate_field_condition_value(p, key, value, depth)
         IN  IF IsError(r) THEN r ELSE WhereItemsFrom(p, items, i + 1, depth)

\* variant whose depth limit is off by one (>= instead of >)
_validate_where_clause_DepthOffByOne(p, where, depth) ==
    IF depth >= p.max_depth
    THEN SecurityError("Query depth exceeds maximum", <<>>)
    ELSE IF ~IsDict(where)
    THEN ValidationError("Where clause must be an object", <<>>)
    ELSE WhereItemsFrom(p, where.items, 1, depth)

_validate_where_clause(p, where, depth) ==
    IF depth > p.max_depth
    THEN SecurityError("Query depth exceeds maximum", <<>>)
    ELSE IF ~IsDict(where)
    THEN ValidationError("Where clause must be an object", <<>>)
    ELSE WhereItemsFrom(p, where.items, 1, depth)

\* variant that holds every operator token against allowed_operators
_validate_operator_RestrictAll(p, operator, value, depth) ==
    IF /\ p.allowed_operators # None
       /\ ~Contains(p.allowed_operators, operator)
    THEN SecurityError("Operator is not allowed", operator)
    ELSE IF operator \in {opAnd, opOr, opNor}
    THEN _validate_logical_operator(p, operator, value, depth)
    ELSE IF operator \in {opIn, opNin}
    THEN _validate_array_operator(p, operator, value)
    ELSE IF operator = opRegex
    THEN _validate_regex_operator(p, operator, value)
    ELSE IF operator = opExists
    THEN _validate_exists_operator(p, operator, value)
    ELSE IF operator = opSize
    THEN _validate_size_operator(p, operator, value)
    ELSE NoError

_validate_operator(p, operator, value, depth) ==
    LET operator_enum == _get_operator_enum(operator)
    IN  IF /\ p.allowed_operators # None
           /\ operator_enum # None
           /\ ~Contains(p.allowed_operators, operator_enum.value)
        THEN SecurityError("Operator is not allowed", operator)
        ELSE IF operator \in {opAnd, opOr, opNor}
        THEN _validate_logical_operator(p, operator, value, depth)
        ELSE IF operator \in {opIn, opNin}
        THEN _validate_array_operator(p, operator, value)
        ELSE IF operator = opRegex
        THEN _validate_regex_operator(p, operator, value)
        ELSE IF operator = opExists
        THEN _validate_exists_operator(p, operator, value)
        ELSE IF operator = opSize
        THEN _validate_size_operator(p, operator, value)
        ELSE NoError

\* the loop of _validate_logical_operator from item i on
LogicalItemsFrom(p, items, i, depth) ==
    IF i > Len(items) THEN NoError
    ELSE LET r == _validate_where_clause(p, items[i], depth + 1)
         IN  IF IsError(r) THEN r ELSE LogicalItemsFrom(p, items, i + 1, depth)

\* variant without the test for an empty array
_validate_logical_operator_NoEmptyTest(p, operator, value, depth) ==
    IF ~IsList(value)
    THEN ValidationError("requires an array value", operator)
    ELSE LogicalItemsFrom(p, value.items, 1, depth)

_validate_logical_operator(p, operator, value, depth) ==
    IF ~IsList(value)
    THEN ValidationError("requires an array value", operator)
    ELSE IF Len(value.items) = 0
    THEN ValidationError("cannot have empty array", operator)
    ELSE LogicalItemsFrom(p, value.items, 1, depth)

\* the loop of _validate_field_condition_value from entry i on
OperatorItemsFrom(p, items, i, depth) ==
    IF i > Len(items) THEN NoError
    ELSE LET r == _validate_operator(p, items[i].k, items[i].v, depth)
         IN  IF IsError(r) THEN r ELSE OperatorItemsFrom(p, items, i + 1, depth)

_validate_field_condition_value(p, field, value, depth) ==
    IF IsDict(value) THEN OperatorItemsFrom(p, value.items, 1, depth) ELSE NoError

\* the loop of _validate_order_clause from field spec i on
RECURSIVE OrderSpecsFrom(_, _, _)
OrderSpecsFrom(p, specs, i) ==
    IF i > Len(specs) THEN NoError
    ELSE LET field_spec == strip(specs[i])
         IN  IF Len(field_spec) = 0 THEN OrderSpecsFrom(p, specs, i + 1)
             ELSE LET field_name == lstrip(field_spec, "-")
                      r == _validate_field_access(p, field_name)
                  IN  IF IsError(r) THEN r ELSE OrderSpecsFrom(p, specs, i + 1)

_validate_order_clause(p, order) ==
    IF ~IsStr(order)
    THEN ValidationError("Order clause must be a string", <<>>)
    ELSE OrderSpecsFrom(p, split(order.s, ","), 1)

\* include in [0, 1]: True == 1 and False == 0 in Python
InZeroOne(include) == IsIntInstance(include) /\ IntOf(include) \in {0, 1}

\* the loop of _validate_fields_clause from entry i on
RECURSIVE FieldsItemsFrom(_, _, _)
FieldsItemsFrom(p, items, i) ==
    IF i > Len(items) THEN NoError
    ELSE LET a == _validate_field_access(p, items[i].k)
         IN  IF IsError(a) THEN a
             ELSE IF ~InZeroOne(items[i].v)
             THEN ValidationError("Field inclusion value must be 0 or 1", items[i].k)
             ELSE FieldsItemsFrom(p, items, i + 1)

_validate_fields_clause(p, fields) ==
    IF ~IsDict(fields)
    THEN ValidationError("Fields clause must be an object", <<>>)
    ELSE FieldsItemsFrom(p, fields.items, 1)

\* the three try blocks of validate_filter_input: each clause's exception
ClauseErrors(p, fi) ==
    <<IF fi.where # None THEN _validate_where_clause(p, fi.where, 0) ELSE NoError,
      IF fi.order # None THEN _validate_order_clause(p, fi.order) ELSE NoError,
      IF fi.fields # None THEN _validate_fields_clause(p, fi.fields) ELSE NoError>>

OfKind(errs, kind) == SelectSeq(errs, LAMBDA e : e.kind = kind)

\* variant that raises as soon as one clause has failed
validate_filter_input_FailFast(p, fi) ==
    LET failed == SelectSeq(ClauseErrors(p, fi), IsError)
    IN  IF Len(failed) = 0 THEN NoError
        ELSE [kind |-> failed[1].kind,
              m |-> IF failed[1].kind = "SecurityError"
                    THEN "Security policy violation"
                    ELSE "Filter validation failed",
              parts |-> <<failed[1]>>]

validate_filter_input(p, fi) ==
    LET raisedByClause == ClauseErrors(p, fi)
        security_errors == OfKind(raisedByClause, "SecurityError")
        errors == OfKind(raisedByClause, "ValidationError")
    IN  IF Len(security_errors) > 0
        THEN [kind |-> "SecurityError", m |-> "Security policy violation",
              parts |-> security_errors]
        ELSE IF Len(errors) > 0
        THEN [kind |-> "ValidationError", m |-> "Filter validation failed",
              parts |-> errors]
        ELSE NoError

(***************************************************************************)
(* Results of the stages that return a value or raise: the value, or the   *)
(* exception (a record with a kind field)                                  *)
(***************************************************************************)
Raises(r) == "kind" \in DOMAIN r

FilterInput(where, order, fields) ==
    [where |-> where, order |-> order, fields |-> fields]

\* d[k] = v on a dict: replaces the value of an existing key, else appends
DictSet(items, k, v) ==
    IF \E i \in 1..Len(items) : items[i].k = k
    THEN [i \in 1..Len(items) |->
             IF items[i].k = k THEN Entry(k, v) ELSE items[i]]
    ELSE Append(items, Entry(k, v))

\* d.get(k): the value of key k, None when absent
DictGet(d, k) ==
    IF \E i \in 1..Len(d.items) : d.items[i].k = k
    THEN d.items[CHOOSE i \in 1..Len(d.items) : d.items[i].k = k].v
    ELSE None

UpperCase ==
    <<"A", "B", "C", "D", "E", "F", "G", "H", "I", "J", "K", "L", "M",
      "N", "O", "P", "Q", "R", "S", "T", "U", "V", "W", "X", "Y", "Z">>
LowerCase ==
    <<"a", "b", "c", "d", "e", "f", "g", "h", "i", "j", "k", "l", "m",
      "n", "o", "p", "q", "r", "s", "t", "u", "v", "w", "x", "y", "z">>

lowerChar(c) ==
    IF \E i \in 1..26 : UpperCase[i] = c
    THEN LowerCase[CHOOSE i \in 1..26 : UpperCase[i] = c]
    ELSE c
upperChar(c) ==
    IF \E i \in 1..26 : LowerCase[i] = c
    THEN UpperCase[CHOOSE i \in 1..26 : LowerCase[i] = c]
    ELSE c
lower(s) == [i \in 1..Len(s) |-> lowerChar(s[i])]
upper(s) == [i \in 1..Len(s) |-> upperChar(s[i])]

\* sep.join(parts)
RECURSIVE join(_, _)
join(parts, sep) ==
    IF Len(parts) = 0 THEN <<>>
    ELSE IF Len(parts) = 1 THEN parts[1]
    ELSE parts[1] \o sep \o join(Tail(parts), sep)

(***************************************************************************)
(* FilterParser.parse (core/parser.py is not part of the sources).         *)
(* A JSON text is kept as the value it decodes to, or as undecodable.      *)
(***************************************************************************)
JsonText(doc) == [t |-> "text", decodes |-> TRUE, doc |-> doc]
MalformedJson == [t |-> "text", decodes |-> FALSE]

kWhere == <<"w", "h", "e", "r", "e">>
kOrder == <<"o", "r", "d", "e", "r">>
kFields == <<"f", "i", "e", "l", "d", "s">>

\* nesting of mappings and sequences below (and including) v
RECURSIVE NestingDepth(_)
NestingDepth(v) ==
    IF IsDict(v)
    THEN 1 + (IF Len(v.items) = 0 THEN 0
              ELSE LET ds == {NestingDepth(v.items[i].v) : i \in 1..Len(v.items)}
                   IN  CHOOSE d \in ds : \A e \in ds : e <= d)
    ELSE IF IsList(v)
    THEN 1 + (IF Len(v.items) = 0 THEN 0
              ELSE LET ds == {NestingDepth(v.items[i]) : i \in 1..Len(v.items)}
                   IN  CHOOSE d \in ds : \A e \in ds : e <= d)
    ELSE 0

parse(cfg, input) ==
    IF input.t = "text" /\ ~input.decodes
    THEN ParseError("Malformed JSON", <<>>)
    ELSE LET data == IF input.t = "text" THEN input.doc ELSE input
         IN  IF ~IsDict(data)
             THEN ParseError("Filter must be a JSON object", <<>>)
             ELSE IF NestingDepth(DictGet(data, kWhere)) > cfg.max_nesting_depth
             THEN ParseError("Maximum nesting depth exceeded", <<>>)
             ELSE FilterInput(DictGet(data, kWhere), DictGet(data, kOrder),
                              DictGet(data, kFields))

(***************************************************************************)
(* FilterNormalizer.normalize (core/normalizer.py is not part of the       *)
(* sources)                                                                *)
(***************************************************************************)
\* the canonical form of an operator name: lower case, with the $ prefix
CanonicalName(key) ==
    LET l == lower(key) IN IF startswith(l, "$") THEN l ELSE <<"$">> \o l

IsLogicalName(key) == CanonicalName(key) \in LogicalOperator
IsComparisonName(key) == CanonicalName(key) \in ComparisonOperator

\* a field's condition mapping, entry i on, added to the entries in acc
RECURSIVE NormalizeOperatorsFrom(_, _, _)
NormalizeOperatorsFrom(items, i, acc) ==
    IF i > Len(items) THEN PyDict(acc)
    ELSE LET key == items[i].k
         IN  IF IsComparisonName(key)
             THEN NormalizeOperatorsFrom(items, i + 1,
                      DictSet(acc, CanonicalName(key), items[i].v))
             ELSE IF startswith(key, "$")
             THEN NormalizeOperatorsFrom(items, i + 1,
                      DictSet(acc, key, items[i].v))
             ELSE ValidationError("Invalid operator", key)

RECURSIVE _normalize_where(_)
RECURSIVE NormalizeWhereFrom(_, _, _)
RECURSIVE NormalizeListFrom(_, _, _)

\* the elements of a logical operator's array, element i on
NormalizeListFrom(items, i, acc) ==
    IF i > Len(items) THEN PyList(acc)
    ELSE LET r == _normalize_where(items[i])
         IN  IF Raises(r) THEN r
             ELSE NormalizeListFrom(items, i + 1, Append(acc, r))

\* variant that wraps every field value in {"$eq": value}, mappings included
NormalizeWhereFrom_ExpandAll(items, i, acc) ==
    IF i > Len(items) THEN PyDict(acc)
    ELSE LET key == items[i].k
             value == items[i].v
         IN  IF IsLogicalName(key)
             THEN IF ~IsList(value)
                  THEN ValidationError("requires an array value", key)
                  ELSE LET r == NormalizeListFrom(value.items, 1, <<>>)
                       IN  IF Raises(r) THEN r
                           ELSE NormalizeWhereFrom(items, i + 1,
                                    DictSet(acc, CanonicalName(key), r))
             ELSE IF startswith(key, "$")
             THEN NormalizeWhereFrom(items, i + 1, DictSet(acc, key, value))
             ELSE NormalizeWhereFrom(items, i + 1,
                      DictSet(acc, key, PyDict(<<Entry(opEq, value)>>)))

\* the entries of a where mapping, entry i on
NormalizeWhereFrom(items, i, acc) ==
    IF i > Len(items) THEN PyDict(acc)
    ELSE LET key == items[i].k
             value == items[i].v
         IN  IF IsLogicalName(key)
             THEN IF ~IsList(value)
                  THEN ValidationError("requires an array value", key)
                  ELSE LET r == NormalizeListFrom(value.items, 1, <<>>)
                       IN  IF Raises(r) THEN r
                           ELSE NormalizeWhereFrom(items, i + 1,
                                    DictSet(acc, CanonicalName(key), r))
             ELSE IF startswith(key, "$")
             THEN NormalizeWhereFrom(items, i + 1, DictSet(acc, key, value))
             ELSE IF IsDict(value)
             THEN LET r == NormalizeOperatorsFrom(value.items, 1, <<>>)
                  IN  IF Raises(r) THEN r
                      ELSE NormalizeWhereFrom(items, i + 1, DictSet(acc, key, r))
             ELSE NormalizeWhereFrom(items, i + 1,
                      DictSet(acc, key, PyDict(<<Entry(opEq, value)>>)))

_normalize_where(where) ==
    IF ~IsDict(where) THEN where ELSE NormalizeWhereFrom(where.items, 1, <<>>)

\* the trimmed, non-empty specs of a sequence of strings
RECURSIVE TrimmedSpecs(_)
TrimmedSpecs(parts) ==
    IF Len(parts) = 0 THEN <<>>
    ELSE IF Len(strip(parts[1])) = 0 THEN TrimmedSpecs(Tail(parts))
    ELSE <<strip(parts[1])>> \o TrimmedSpecs(Tail(parts))

IsDigits(s) ==
    Len(s) > 0 /\ \A i \in 1..Len(s) :
        s[i] \in {"0", "1", "2", "3", "4", "5", "6", "7", "8", "9"}

DigitValue(c) ==
    CASE c = "0" -> 0 [] c = "1" -> 1 [] c = "2" -> 2 [] c = "3" -> 3
      [] c = "4" -> 4 [] c = "5" -> 5 [] c = "6" -> 6 [] c = "7" -> 7
      [] c = "8" -> 8 [] c = "9" -> 9

RECURSIVE int(_)
int(s) ==
    IF Len(s) = 0 THEN 0
    ELSE 10 * int(SubSeq(s, 1, Len(s) - 1)) + DigitValue(s[Len(s)])

\* variant that keeps the entries in their insertion order
SortByIntKey_Unsorted(items) == items

\* the entries sorted by int(key) (stable)
RECURSIVE SortByIntKey(_)
SortByIntKey(items) ==
    IF Len(items) = 0 THEN <<>>
    ELSE LET i == CHOOSE i \in 1..Len(items) :
                      /\ \A j \in 1..Len(items) : int(items[i].k) <= int(items[j].k)
                      /\ \A j \in 1..(i - 1) : int(items[j].k) # int(items[i].k)
         IN  <<items[i]>> \o
             SortByIntKey([j \in 1..(Len(items) - 1) |->
                              IF j < i THEN items[j] ELSE items[j + 1]])

_normalize_order(order) ==
    IF IsStr(order)
    THEN PyStr(join(TrimmedSpecs(split(order.s, ",")), <<",">>))
    ELSE IF IsList(order)
    THEN IF \E i \in 1..Len(order.items) : ~IsStr(order.items[i])
         THEN ValidationError("Order items must be a string", <<>>)
         ELSE PyStr(join(TrimmedSpecs([i \in 1..Len(order.items) |->
                                          order.items[i].s]), <<",">>))
    ELSE IF IsDict(order)
    THEN IF \E i \in 1..Len(order.items) : ~IsStr(order.items[i].v)
         THEN ValidationError("Order value must be a string", <<>>)
         ELSE LET sorted == IF \A i \in 1..Len(order.items) :
                                   IsDigits(order.items[i].k)
                            THEN SortByIntKey(order.items)
                            ELSE order.items
              IN  PyStr(join(TrimmedSpecs([i \in 1..Len(sorted) |->
                                              sorted[i].v.s]), <<",">>))
    ELSE order

\* the entries of the fields mapping, entry i on
RECURSIVE NormalizeFieldsFrom(_, _, _)
NormalizeFieldsFrom(items, i, acc) ==
    IF i > Len(items) THEN PyDict(acc)
    ELSE LET value == items[i].v
         IN  IF value.t = "bool"
             THEN NormalizeFieldsFrom(items, i + 1,
                      DictSet(acc, items[i].k, PyInt(IF value.b THEN 1 ELSE 0)))
             ELSE IF value.t = "int" /\ value.n \in {0, 1}
             THEN NormalizeFieldsFrom(items, i + 1,
                      DictSet(acc, items[i].k, value))
             ELSE ValidationError("must be boolean or number", items[i].k)

_normalize_fields(fields) ==
    IF ~IsDict(fields) THEN fields ELSE NormalizeFieldsFrom(fields.items, 1, <<>>)

normalize(fi) ==
    LET where == IF fi.where # None THEN _normalize_where(fi.where) ELSE None
        order == IF fi.order # None THEN _normalize_order(fi.order) ELSE None
        fields == IF fi.fields # None THEN _normalize_fields(fi.fields) ELSE None
    IN  IF Raises(where) THEN where
        ELSE IF Raises(order) THEN order
        ELSE IF Raises(fields) THEN fields
        ELSE FilterInput(where, order, fields)

(***************************************************************************)
(* AST nodes (core/types.py is not part of the sources)                    *)
(***************************************************************************)
FieldCondition(field, operator, value) ==
    [t |-> "FieldCondition", field |-> field, operator |-> operator,
     value |-> value]
LogicalCondition(operator, conditions) ==
    [t |-> "LogicalCondition", operator |-> operator, conditions |-> conditions]
OrderNode(field, ascending) == [field |-> field, ascending |-> ascending]
FieldsNode(fields) == [t |-> "FieldsNode", fields |-> fields]
FilterAST(where, order, fields) ==
    [where |-> where, order |-> order, fields |-> fields]

IsFieldCondition(n) == n.t = "FieldCondition"
IsLogicalCondition(n) == n.t = "LogicalCondition"

(***************************************************************************)
(* ASTBuilder.build (core/ast.py is not part of the sources)               *)
(***************************************************************************)
\* the operators of a field's condition mapping, entry i on
RECURSIVE BuildOperatorsFrom(_, _, _, _)
BuildOperatorsFrom(field, items, i, acc) ==
    IF i > Len(items) THEN [nodes |-> acc]
    ELSE LET key == items[i].k
         IN  IF ~startswith(key, "$")
             THEN ParseError("Operator must start with '$'", key)
             ELSE IF key \notin ComparisonOperator
             THEN ParseError("Unknown operator", key)
             ELSE BuildOperatorsFrom(field, items, i + 1,
                      Append(acc, FieldCondition(field, key, items[i].v)))

\* variant that takes the single operator of a mapping as it stands
_build_field_condition_Unchecked(field, value) ==
    IF startswith(field, "$")
    THEN ParseError("Field name cannot start with '$'", field)
    ELSE IF IsDict(value) /\ Len(value.items) = 1
    THEN FieldCondition(field, value.items[1].k, value.items[1].v)
    ELSE IF IsDict(value)
    THEN LET conditions == BuildOperatorsFrom(field, value.items, 1, <<>>)
         IN  IF Raises(conditions) THEN conditions
             ELSE LogicalCondition(opAnd, conditions.nodes)
    ELSE FieldCondition(field, opEq, value)

_build_field_condition(field, value) ==
    IF startswith(field, "$")
    THEN ParseError("Field name cannot start with '$'", field)
    ELSE IF IsDict(value)
    THEN LET conditions == BuildOperatorsFrom(field, value.items, 1, <<>>)
         IN  IF Raises(conditions) THEN conditions
             ELSE IF Len(conditions.nodes) = 1 THEN conditions.nodes[1]
             ELSE LogicalCondition(opAnd, conditions.nodes)
    ELSE FieldCondition(field, opEq, value)

RECURSIVE _build_condition(_)
RECURSIVE BuildChildrenFrom(_, _, _)
RECURSIVE BuildEntriesFrom(_, _, _)

\* the elements of a logical operator's sequence, element i on
BuildChildrenFrom(items, i, acc) ==
    IF i > Len(items) THEN [nodes |-> acc]
    ELSE LET child == _build_condition(items[i])
         IN  IF Raises(child) THEN child
             ELSE BuildChildrenFrom(items, i + 1, Append(acc, child))

\* variant that hands back the only child of a one-element sequence
_build_logical_condition_Flatten(operator, value) ==
    IF ~IsList(value)
    THEN ParseError("requires a list value", operator)
    ELSE IF Len(value.items) = 0
    THEN ParseError("requires a non-empty list", operator)
    ELSE LET children == BuildChildrenFrom(value.items, 1, <<>>)
         IN  IF Raises(children) THEN children
             ELSE IF Len(children.nodes) = 1 THEN children.nodes[1]
             ELSE LogicalCondition(operator, children.nodes)

_build_logical_condition(operator, value) ==
    IF ~IsList(value)
    THEN ParseError("requires a list value", operator)
    ELSE IF Len(value.items) = 0
    THEN ParseError("requires a non-empty list", operator)
    ELSE LET children == BuildChildrenFrom(value.items, 1, <<>>)
         IN  IF Raises(children) THEN children
             ELSE LogicalCondition(operator, children.nodes)

\* the entries of a condition mapping, entry i on
BuildEntriesFrom(items, i, acc) ==
    IF i > Len(items) THEN [nodes |-> acc]
    ELSE LET node == IF items[i].k \in LogicalOperator
                     THEN _build_logical_condition(items[i].k, items[i].v)
                     ELSE _build_field_condition(items[i].k, items[i].v)
         IN  IF Raises(node) THEN node
             ELSE BuildEntriesFrom(items, i + 1, Append(acc, node))

_build_condition(condition) ==
    IF ~IsDict(condition)
    THEN ParseError("Condition must be an object", <<>>)
    ELSE IF Len(condition.items) = 0
    THEN ParseError("Empty condition", <<>>)
    ELSE LET nodes == BuildEntriesFrom(condition.items, 1, <<>>)
         IN  IF Raises(nodes) THEN nodes
             ELSE IF Len(nodes.nodes) = 1 THEN nodes.nodes[1]
             ELSE LogicalCondition(opAnd, nodes.nodes)

\* s.split(): the pieces of s between runs of whitespace
splitWhitespace(s) == SelectSeq(split(s, " "), LAMBDA piece : Len(piece) > 0)

kwASC == <<"A", "S", "C">>
kwDESC == <<"D", "E", "S", "C">>

\* one trimmed, non-empty order spec
_parse_order_spec(field_spec) ==
    IF startswith(field_spec, "-")
    THEN OrderNode(strip(Tail(field_spec)), FALSE)
    ELSE LET parts == splitWhitespace(field_spec)
         IN  IF Len(parts) >= 2 /\ upper(parts[Len(parts)]) \in {kwASC, kwDESC}
             THEN OrderNode(join(SubSeq(parts, 1, Len(parts) - 1), <<" ">>),
                            upper(parts[Len(parts)]) = kwASC)
             ELSE OrderNode(field_spec, TRUE)

RECURSIVE BuildOrderFrom(_, _, _)
BuildOrderFrom(specs, i, acc) ==
    IF i > Len(specs) THEN acc
    ELSE LET field_spec == strip(specs[i])
         IN  IF Len(field_spec) = 0 THEN BuildOrderFrom(specs, i + 1, acc)
             ELSE BuildOrderFrom(specs, i + 1,
                      Append(acc, _parse_order_spec(field_spec)))

_build_order(order) ==
    IF IsList(order)
    THEN BuildOrderFrom([i \in 1..Len(order.items) |-> order.items[i].s], 1, <<>>)
    ELSE BuildOrderFrom(split(order.s, ","), 1, <<>>)

_build_fields(fields) ==
    IF \E i \in 1..Len(fields.items) : ~InZeroOne(fields.items[i].v)
    THEN ParseError("Field inclusion value must be 0 or 1", <<>>)
    ELSE FieldsNode(fields.items)

build(fi) ==
    LET where == IF fi.where # None THEN _build_condition(fi.where) ELSE None
        order == IF fi.order # None THEN _build_order(fi.order) ELSE <<>>
        fields == IF fi.fields # None THEN _build_fields(fi.fields) ELSE None
    IN  IF Raises(where) THEN where
        ELSE IF Raises(fields) THEN fields
        ELSE FilterAST(where, order, fields)

(***************************************************************************)
(* ASTOptimizer.optimize (core/optimizer.py is not part of the sources).   *)
(* cfg is the OptimizerConfig.                                             *)
(***************************************************************************)
DigitChars == <<"0", "1", "2", "3", "4", "5", "6", "7", "8", "9">>

\* str(n) of a non-negative int
RECURSIVE IntToStr(_)
IntToStr(n) ==
    IF n < 10 THEN <<DigitChars[n + 1]>>
    ELSE IntToStr(n \div 10) \o <<DigitChars[(n % 10) + 1]>>

\* str(value) and, for the elements of a list, repr(value)
RECURSIVE PyToStr(_, _)
PyToStr(value, asRepr) ==
    CASE value.t = "none" -> <<"N", "o", "n", "e">>
      [] value.t = "bool" -> IF value.b THEN <<"T", "r", "u", "e">>
                             ELSE <<"F", "a", "l", "s", "e">>
      [] value.t = "int" -> IF value.n < 0 THEN <<"-">> \o IntToStr(0 - value.n)
                            ELSE IntToStr(value.n)
      [] value.t = "str" -> IF asRepr THEN <<"'">> \o value.s \o <<"'">>
                            ELSE value.s
      [] value.t = "list" ->
             <<"[">> \o
             join([i \in 1..Len(value.items) |-> PyToStr(value.items[i], TRUE)],
                  <<",", " ">>) \o <<"]">>
      [] OTHER -> <<"{", "}">>

\* the structural key: "field:<name>:<op>:<value>" for a leaf, "logical:<op>"
\* with the keys of the children, taken in sorted order, for an interior node
\* (the sorted keys are kept as the bag of the keys)
\* variant whose key of an interior node keeps the children in their order
RECURSIVE _get_condition_key_Ordered(_)
_get_condition_key_Ordered(node) ==
    IF IsFieldCondition(node)
    THEN <<"field", node.field, node.operator, PyToStr(node.value, FALSE)>>
    ELSE <<"logical", node.operator,
           [i \in 1..Len(node.conditions) |->
               _get_condition_key_Ordered(node.conditions[i])]>>

RECURSIVE _get_condition_key(_)
_get_condition_key(node) ==
    IF IsFieldCondition(node)
    THEN <<"field", node.field, node.operator, PyToStr(node.value, FALSE)>>
    ELSE LET keys == [i \in 1..Len(node.conditions) |->
                         _get_condition_key(node.conditions[i])]
             keySet == {keys[i] : i \in 1..Len(keys)}
         IN  <<"logical", node.operator,
               [k \in keySet |-> Cardinality({i \in 1..Len(keys) : keys[i] = k})]>>

_nodes_equal(node1, node2) ==
    IF node1 = None \/ node2 = None THEN node1 = node2
    ELSE _get_condition_key(node1) = _get_condition_key(node2)

\* children of a child with the parent's operator are spliced into the parent
RECURSIVE _simplify_logical_operators(_, _)
_simplify_logical_operators(operator, conditions) ==
    IF Len(conditions) = 0 THEN <<>>
    ELSE LET first == conditions[1]
             rest == _simplify_logical_operators(operator, Tail(conditions))
         IN  IF IsLogicalCondition(first) /\ first.operator = operator
             THEN _simplify_logical_operators(operator, first.conditions) \o rest
             ELSE <<first>> \o rest

\* the first condition of each structural key
RECURSIVE RemoveRedundantFrom(_, _, _)
RemoveRedundantFrom(conditions, i, acc) ==
    IF i > Len(conditions) THEN acc
    ELSE IF \E j \in 1..Len(acc) : _nodes_equal(acc[j], conditions[i])
    THEN RemoveRedundantFrom(conditions, i + 1, acc)
    ELSE RemoveRedundantFrom(conditions, i + 1, Append(acc, conditions[i]))

_remove_redundant_conditions(conditions) ==
    RemoveRedundantFrom(conditions, 1, <<>>)

\* the hook for range merging: every condition stays a condition of its own
_combine_range_conditions(cfg, conditions) == conditions

RECURSIVE _optimize_node(_, _)
RECURSIVE OptimizeChildrenFrom(_, _, _, _)

\* the optimized children, those optimized to None dropped
OptimizeChildrenFrom(cfg, conditions, i, acc) ==
    IF i > Len(conditions) THEN acc
    ELSE LET optimized == _optimize_node(cfg, conditions[i])
         IN  OptimizeChildrenFrom(cfg, conditions, i + 1,
                 IF optimized = None THEN acc ELSE Append(acc, optimized))

\* variant that unwraps a single child without optimizing it first
_optimize_logical_condition_ShallowUnwrap(cfg, node) ==
    IF Len(node.conditions) = 1 THEN node.conditions[1]
    ELSE LET optimized == OptimizeChildrenFrom(cfg, node.conditions, 1, <<>>)
         IN  IF Len(optimized) = 0 THEN None
             ELSE IF Len(optimized) = 1 THEN optimized[1]
             ELSE LogicalCondition(node.operator,
                      _remove_redundant_conditions(
                          _simplify_logical_operators(node.operator, optimized)))

_optimize_logical_condition(cfg, node) ==
    LET optimized == OptimizeChildrenFrom(cfg, node.conditions, 1, <<>>)
    IN  IF Len(optimized) = 0 THEN None
        ELSE IF Len(optimized) = 1 THEN optimized[1]
        ELSE LET simplified ==
                     IF cfg.simplify_logical_operators
                     THEN _simplify_logical_operators(node.operator, optimized)
                     ELSE optimized
                 deduplicated ==
                     IF cfg.remove_redundant_conditions
                     THEN _remove_redundant_conditions(simplified)
                     ELSE simplified
                 combined ==
                     IF cfg.combine_range_conditions
                     THEN _combine_range_conditions(cfg, deduplicated)
                     ELSE deduplicated
             IN  LogicalCondition(node.operator, combined)

_optimize_node(cfg, node) ==
    IF IsLogicalCondition(node) THEN _optimize_logical_condition(cfg, node)
    ELSE node

\* the first OrderNode of each field
RECURSIVE OptimizeOrderFrom(_, _, _)
OptimizeOrderFrom(order, i, acc) ==
    IF i > Len(order) THEN acc
    ELSE IF \E j \in 1..Len(acc) : acc[j].field = order[i].field
    THEN OptimizeOrderFrom(order, i + 1, acc)
    ELSE OptimizeOrderFrom(order, i + 1, Append(acc, order[i]))

_optimize_order(order) == OptimizeOrderFrom(order, 1, <<>>)

\* the pass loop: at most passes node rewrites, stopping at the first pass
\* that changes nothing
RECURSIVE OptimizePasses(_, _, _)
OptimizePasses(cfg, node, passes) ==
    IF passes = 0 \/ node = None THEN node
    ELSE LET rewritten == _optimize_node(cfg, node)
         IN  IF _nodes_equal(node, rewritten) THEN rewritten
             ELSE OptimizePasses(cfg, rewritten, passes - 1)

optimize(cfg, tree) ==
    IF ~cfg.enabled THEN tree
    ELSE FilterAST(OptimizePasses(cfg, tree.where, cfg.max_optimization_passes),
                   _optimize_order(tree.order), tree.fields)

\* variant that hands back its argument whenever no rewrite changed the tree
optimize_returns_ReuseUnchanged(cfg, tree, arg_id, new_id) ==
    IF ~cfg.enabled \/ optimize(cfg, tree) = tree THEN arg_id ELSE new_id

\* The identity of the object ASTOptimizer.optimize returns: with the
\* optimizer disabled "return ast" hands back the argument itself, otherwise
\* the result is a FilterAST constructed by the call.
optimize_returns(cfg, tree, arg_id, new_id) ==
    IF ~cfg.enabled THEN arg_id ELSE new_id

(***************************************************************************)
(* The inputs of the model                                                 *)
(***************************************************************************)
MaxNest == 4        \* logical operators nested around a generated condition
MaxArray == 3       \* longest $in array generated
DefaultMaxNestingDepth == 10
CustomMaxNestingDepth == 5
DefaultMaxOptimizationPasses == 3

fA == <<"a">>
fB == <<"b">>
fX == <<"x">>
opFoo == <<"$", "f", "o", "o">>

Dict1(k, v) == PyDict(<<Entry(k, v)>>)
IntList(n) == PyList([i \in 1..n |-> PyInt(i)])

\* one key of a where mapping with its value
CoreEntries ==
    {Entry(fA, PyInt(1)),
     Entry(fX, PyInt(1)),
     Entry(fA, Dict1(opExists, PyInt(1))),
     Entry(fB, Dict1(opIn, IntList(MaxArray - 1))),
     Entry(fB, Dict1(opIn, IntList(MaxArray)))}

LeafEntries ==
    CoreEntries \cup
    {Entry(fA, Dict1(opGt, PyInt(1))),
     Entry(fA, Dict1(opEq, PyStr(<<"1">>))),
     Entry(fA, Dict1(opExists, PyBool(TRUE))),
     Entry(fA, Dict1(opFoo, PyInt(1))),
     Entry(fA, Dict1(<<"G", "T">>, PyInt(1))),
     Entry(fA, Dict1(<<"b", "a", "d">>, PyInt(1))),
     Entry(fA, PyDict(<<Entry(opGt, PyInt(1)), Entry(opLt, PyInt(5))>>)),
     Entry(fA, PyDict(<<Entry(opExists, PyInt(1)), Entry(opGt, PyInt(1))>>)),
     Entry(fA, PyDict(<<Entry(opExists, PyInt(1)),
                        Entry(<<"G", "t">>, PyInt(1))>>)),
     Entry(fB, Dict1(opRegex, PyStr(<<"(">>))),
     Entry(fB, Dict1(opRegex, PyStr(<<"b">>))),
     Entry(fB, Dict1(opSize, PyInt(-1))),
     Entry(fX, Dict1(opExists, PyInt(1))),
     Entry(fX, Dict1(opIn, IntList(MaxArray))),
     Entry(opFoo, PyInt(1)),
     Entry(opGt, PyInt(1)),
     Entry(<<>>, PyInt(1))}

CoreConditions == {PyDict(<<e>>) : e \in CoreEntries}

FlatConditions ==
    {PyDict(<<>>)} \cup
    {PyDict(<<e>>) : e \in LeafEntries} \cup
    {PyDict(<<q[1], q[2]>>) :
         q \in {q \in CoreEntries \X CoreEntries : q[1].k # q[2].k}}

\* conditions under n nested logical operators
RECURSIVE Nested(_)
Nested(n) ==
    IF n = 0 THEN CoreConditions
    ELSE {Dict1(op, PyList(<<c>>)) :
              op \in (IF n = 1 THEN LogicalOperator ELSE {opAnd, opOr}),
              c \in Nested(n - 1)}

LogicalConditions ==
    {Dict1(op, v) : op \in LogicalOperator,
                    v \in {PyList(<<>>), PyStr(<<"b">>)}} \cup
    {Dict1(op, PyList(<<c>>)) :
         op \in LogicalOperator, c \in {PyDict(<<e>>) : e \in LeafEntries}} \cup
    {Dict1(op, PyList(<<c1, c2>>)) :
         op \in {opAnd, opOr}, c1 \in CoreConditions, c2 \in CoreConditions} \cup
    {Dict1(<<"A", "N", "D">>, PyList(<<c>>)) : c \in CoreConditions} \cup
    {PyDict(<<Entry(fX, PyInt(1)), Entry(opAnd, PyList(<<c>>))>>) :
         c \in Nested(1)} \cup
    UNION {Nested(n) : n \in 2..MaxNest} \cup
    {Dict1(opAnd, PyList(<<c, Dict1(opOr, PyList(<<c,
                               Dict1(opAnd, PyList(<<c, c>>))>>))>>)) :
         c \in CoreConditions} \cup
    {Dict1(opAnd, PyList(<<c, Dict1(opAnd, PyList(<<c, d>>)), d>>)) :
         c \in CoreConditions, d \in CoreConditions} \cup
    {Dict1(op, PyList(<<Dict1(opOr, PyList(<<c, d>>)),
                        Dict1(opOr, PyList(<<d, c>>))>>)) :
         op \in {opAnd, opNor},
         c \in {Dict1(fA, PyInt(1))},
         d \in {Dict1(fB, Dict1(opIn, IntList(MaxArray - 1))),
                Dict1(fA, Dict1(opGt, PyInt(1)))}} \cup
    {Dict1(opAnd, PyList(<<Dict1(fA, q[1]), Dict1(fA, q[2])>>)) :
         q \in {<<PyInt(1), PyStr(<<"1">>)>>, <<PyStr(<<"1">>), PyInt(1)>>}} \cup
    {Dict1(op, PyList(<<Dict1(op, PyList(<<c, d>>)), c>>)) :
         op \in {opOr, opNor},
         c \in {Dict1(fA, PyInt(1))},
         d \in {Dict1(fB, Dict1(opIn, IntList(MaxArray - 1)))}}

OrderFields == {fA, fX}
OrderSpecs(f) ==
    {f, <<"-">> \o f, f \o <<" ">> \o kwASC, f \o <<" ">> \o kwDESC,
     f \o <<" ", "a", "s", "c">>, f \o <<" ", "d", "e", "s", "c">>,
     f \o <<" ", "D", "e", "s", "c">>, <<" ">> \o f \o <<" ">>,
     <<"-", "-">> \o f}

OrderStrings ==
    UNION {OrderSpecs(f) : f \in OrderFields} \cup
    {fA \o <<",">> \o s : s \in OrderSpecs(fX)} \cup
    {s \o <<",", " ">> \o fA : s \in OrderSpecs(fX)} \cup
    {<<>>, <<" ">>, <<"-">>, fA \o <<",", " ", ",">> \o fB}

OrderValues ==
    {PyStr(o) : o \in OrderStrings} \cup
    {PyList(<<PyStr(fA \o <<" ">> \o kwASC), PyStr(s)>>) : s \in OrderSpecs(fX)} \cup
    {PyDict(<<Entry(<<"0">>, PyStr(fA \o <<" ">> \o kwASC)),
              Entry(<<"1">>, PyStr(fX \o <<" ">> \o kwDESC))>>),
     PyDict(<<Entry(<<"1">>, PyStr(fX \o <<" ">> \o kwDESC)),
              Entry(<<"0">>, PyStr(fA \o <<" ">> \o kwASC))>>),
     PyDict(<<Entry(<<"0">>, PyInt(1))>>),
     PyInt(1)}

FieldsValues ==
    {Dict1(fA, PyInt(1)), Dict1(fX, PyInt(1)), Dict1(fA, PyInt(2)),
     Dict1(fX, PyInt(2)), Dict1(fA, PyBool(TRUE)),
     PyDict(<<Entry(fA, PyInt(1)), Entry(fX, PyInt(0))>>),
     PyDict(<<Entry(fA, PyInt(2)), Entry(fX, PyInt(1))>>),
     PyStr(fA)}

\* the mapping {"where": ..., "order": ..., "fields": ...}; a None section is
\* a key that is absent
FilterMapping(where, order, fields) ==
    PyDict(SelectSeq(<<Entry(kWhere, where), Entry(kOrder, order),
                       Entry(kFields, fields)>>,
                     LAMBDA e : e.v # None))

Policy(blocked, allowed, depth, size, operators) ==
    [blocked_fields |-> blocked, allowed_fields |-> allowed,
     max_depth |-> depth, max_array_size |-> size,
     allowed_operators |-> operators]

FieldPolicies ==
    {<<None, None>>, <<PySet({fX}), None>>, <<PySet({fX}), PySet({fX, fA})>>,
     <<None, PySet({fA, fB})>>, <<PySet({}), PySet({})>>,
     <<PySet({fX}), PySet({fA, fB})>>, <<None, PySet({fX})>>,
     <<PySet({fX, fA}), None>>}

OperatorPolicies ==
    {None, PySet({}), PySet({opEq, opExists}),
     PySet({opEq, opGt, opIn, opExists, opRegex})}

DepthLimits == {1, 2, MaxNest}

Config(nesting) ==
    [parser |-> [max_nesting_depth |-> nesting],
     debug |-> FALSE,
     optimizer |-> [enabled |-> TRUE,
                    simplify_logical_operators |-> TRUE,
                    combine_range_conditions |-> TRUE,
                    remove_redundant_conditions |-> TRUE,
                    max_optimization_passes |-> DefaultMaxOptimizationPasses]]

DefaultConfig == Config(DefaultMaxNestingDepth)
\* OptimizerConfig(enabled=False)
DisabledConfig == [DefaultConfig EXCEPT !.optimizer.enabled = FALSE]

\* <<filter_input, security_policy, config>>
Scenarios ==
    {<<FilterMapping(w, None, None),
       Policy(fp[1], fp[2], MaxNest - 1, MaxArray - 1, ops), DefaultConfig>> :
         w \in FlatConditions, fp \in FieldPolicies, ops \in OperatorPolicies}
    \cup
    {<<FilterMapping(w, None, None),
       Policy(fp[1], fp[2], d, MaxArray - 1, ops), DefaultConfig>> :
         w \in LogicalConditions,
         fp \in {<<None, None>>, <<PySet({fX}), None>>,
                 <<PySet({fX}), PySet({fX, fA, fB})>>},
         d \in DepthLimits, ops \in {None, PySet({opEq, opExists})}}
    \cup
    {<<FilterMapping(w, None, None),
       Policy(None, None, MaxNest, MaxArray - 1, None),
       Config(CustomMaxNestingDepth)>> : w \in LogicalConditions}
    \cup
    {<<FilterMapping(w, o, None),
       Policy(fp[1], fp[2], MaxNest - 1, MaxArray - 1, None), DefaultConfig>> :
         w \in {None, Dict1(fA, PyInt(1))}, o \in OrderValues,
         fp \in FieldPolicies}
    \cup
    {<<FilterMapping(w, o, f),
       Policy(fp[1], fp[2], MaxNest - 1, MaxArray - 1, None), DefaultConfig>> :
         w \in {None} \cup {Dict1(fA, PyInt(1)), Dict1(fX, PyInt(1)),
                            Dict1(fA, Dict1(opExists, PyInt(1)))},
         o \in {None, PyStr(fX), PyStr(fA), PyInt(1)},
         f \in {None} \cup FieldsValues, fp \in FieldPolicies}
    \cup
    {<<FilterMapping(w, o, f),
       Policy(None, None, MaxNest - 1, MaxArray - 1, None), DisabledConfig>> :
         w \in {None, Dict1(fA, PyInt(1)),
                Dict1(opAnd, PyList(<<Dict1(fA, PyInt(1)),
                                      Dict1(fA, PyInt(1))>>))}
               \cup Nested(2),
         o \in {None, PyStr(fA \o <<",">> \o fA)},
         f \in {None, Dict1(fA, PyInt(1))}}
    \cup
    {<<t, Policy(None, None, MaxNest - 1, MaxArray - 1, None), DefaultConfig>> :
         t \in {MalformedJson, JsonText(PyList(<<>>)),
                JsonText(FilterMapping(Dict1(fA, PyInt(1)), PyStr(fA), None))}}

Unset == [t |-> "unset"]

\* Object identities (Python's id()): 0 stands for "no object yet"; a newly
\* constructed object gets an identity no live object has.
NoObject == 0
NewObject(live) == CHOOSE i \in 1..(Cardinality(live) + 1) : i \notin live

(***************************************************************************)
(* CompilerRegistry and OperatorRegistry (core/registry.py).  A dict is    *)
(* the sequence of its entries in insertion order.                         *)
(***************************************************************************)
RegistryError(m, arg) == [kind |-> "RegistryError", m |-> m, arg |-> arg]
KeyError(arg) == [kind |-> "KeyError", m |-> "", arg |-> arg]

\* k in d, d[k], del d[k]
HasKey(items, k) == \E i \in 1..Len(items) : items[i].k = k
Item(items, k) == items[CHOOSE i \in 1..Len(items) : items[i].k = k].v
DictDel(items, k) == SelectSeq(items, LAMBDA e : e.k # k)

\* Optional[str] backend arguments: None is the empty name (the code only
\* tests the argument's truthiness)
NoBackend == ""

\* issubclass(compiler_class, QueryCompiler)
CompilerClasses == {"C1", "C2"}
NotACompiler == "object"
issubclass_QueryCompiler(compiler_class) == compiler_class \in CompilerClasses

\* compiler_class(): the instance with identity id
Instance(compiler_class, id) == [class |-> compiler_class, id |-> id]

\* variant that refuses a backend name that is already registered
register_compiler_RefuseDuplicate(compilers, instances, backend_name, compiler_class) ==
    IF ~issubclass_QueryCompiler(compiler_class)
    THEN [raised |-> RegistryError("must implement QueryCompiler", backend_name),
          compilers |-> compilers, instances |-> instances]
    ELSE IF HasKey(compilers, backend_name)
    THEN [raised |-> RegistryError("already registered", backend_name),
          compilers |-> compilers, instances |-> instances]
    ELSE [raised |-> NoError,
          compilers |-> DictSet(compilers, backend_name, compiler_class),
          instances |-> instances]

\* variant that keeps the cached instance when a class is registered
register_compiler_KeepCache(compilers, instances, backend_name, compiler_class) ==
    IF ~issubclass_QueryCompiler(compiler_class)
    THEN [raised |-> RegistryError("must implement QueryCompiler", backend_name),
          compilers |-> compilers, instances |-> instances]
    ELSE [raised |-> NoError,
          compilers |-> DictSet(compilers, backend_name, compiler_class),
          instances |-> instances]

\* CompilerRegistry.register_compiler
register_compiler(compilers, instances, backend_name, compiler_class) ==
    IF ~issubclass_QueryCompiler(compiler_class)
    THEN [raised |-> RegistryError("must implement QueryCompiler", backend_name),
          compilers |-> compilers, instances |-> instances]
    ELSE [raised |-> NoError,
          compilers |-> DictSet(compilers, backend_name, compiler_class),
          instances |-> IF HasKey(instances, backend_name)
                        THEN DictDel(instances, backend_name)
                        ELSE instances]

\* CompilerRegistry.get_compiler; new_id is the identity of the instance the
\* call constructs when none is cached
get_compiler(compilers, instances, backend_name, new_id) ==
    IF ~HasKey(compilers, backend_name)
    THEN [raised |-> RegistryError("No compiler registered", backend_name),
          instances |-> instances, value |-> None]
    ELSE LET cached == IF ~HasKey(instances, backend_name)
                       THEN DictSet(instances, backend_name,
                                Instance(Item(compilers, backend_name), new_id))
                       ELSE instances
         IN  [raised |-> NoError, instances |-> cached,
              value |-> Item(cached, backend_name)]

\* CompilerRegistry.unregister_compiler
unregister_compiler(compilers, instances, backend_name) ==
    [raised |-> NoError,
     compilers |-> IF HasKey(compilers, backend_name)
                   THEN DictDel(compilers, backend_name) ELSE compilers,
     instances |-> IF HasKey(instances, backend_name)
                   THEN DictDel(instances, backend_name) ELSE instances]

\* {'implementation': implementation, 'backends': backends or []}
OperatorInfo(implementation, backends) ==
    [implementation |-> implementation,
     backends |-> IF backends = None \/ backends.items = <<>>
                  THEN PyList(<<>>) ELSE backends]

\* variant without the test of the name's first character
register_operator_AnyName(operators, name, implementation, backends) ==
    [raised |-> NoError,
     operators |-> DictSet(operators, name,
                       OperatorInfo(implementation, backends))]

\* OperatorRegistry.register_operator
register_operator(operators, name, implementation, backends) ==
    IF ~startswith(name, "$")
    THEN [raised |-> RegistryError("Operator names must start with '$'", name),
          operators |-> operators]
    ELSE [raised |-> NoError,
          operators |-> DictSet(operators, name,
                            OperatorInfo(implementation, backends))]

\* the backend compatibility test of get_operator
BackendRefused(operator_info, backend) ==
    /\ backend # NoBackend
    /\ operator_info.backends.items # <<>>
    /\ \A i \in 1..Len(operator_info.backends.items) :
           operator_info.backends.items[i] # backend

\* OperatorRegistry.get_operator
get_operator(operators, name, backend) ==
    IF ~HasKey(operators, name)
    THEN [raised |-> RegistryError("Unknown operator", name), value |-> None]
    ELSE LET operator_info == Item(operators, name)
         IN  IF BackendRefused(operator_info, backend)
             THEN [raised |-> RegistryError("not supported for backend", name),
                   value |-> None]
             ELSE [raised |-> NoError,
                   value |-> [implementation |-> operator_info.implementation]]

\* variant that only looks the name up
is_registered_IgnoreBackend(operators, name, backend) == HasKey(operators, name)

\* OperatorRegistry.is_registered
is_registered(operators, name, backend) ==
    IF ~HasKey(operators, name) THEN FALSE
    ELSE IF backend # NoBackend
    THEN LET operator_info == Item(operators, name)
         IN  \/ operator_info.backends.items = <<>>
             \/ \E i \in 1..Len(operator_info.backends.items) :
                    operator_info.backends.items[i] = backend
    ELSE TRUE

\* OperatorRegistry.list_operators
list_operators(operators, backend) ==
    LET listed == IF backend # NoBackend
                  THEN SelectSeq(operators,
                           LAMBDA e : \/ e.v.backends.items = <<>>
                                      \/ \E i \in 1..Len(e.v.backends.items) :
                                             e.v.backends.items[i] = backend)
                  ELSE operators
    IN  [i \in 1..Len(listed) |-> listed[i].k]

\* no registry call has been made or is under way
NoCall == [op |-> "none"]
ThreadIds == {1, 2, 3}
\* a thread outside every registry call: n calls made, the last one call,
\* with its result
Returned(n, call, result) ==
    [pc |-> "idle", n |-> n, call |-> call, local |-> None, result |-> result]
Idle == Returned(0, NoCall, NoCall)

\* CompilerRegistry.__init__, OperatorRegistry.__init__
RegistryInit ==
    /\ _operators = <<>>
    /\ _compilers = <<>>
    /\ _instances = <<>>
    /\ last_call = NoCall
    /\ threads = [t \in ThreadIds |-> Idle]

(***************************************************************************)
(* BeanieQueryAdapter and BeanieQueryCompiler (backends/beanie/adapter.py, *)
(* backends/beanie/compiler.py).  compile works on a store st of the       *)
(* objects it can reach: st.ast, the FilterAST it was given, and           *)
(* st.adapter, the adapter of the compiler.  An attribute that is assigned *)
(* an object of the AST holds a reference to it, not a copy.               *)
(***************************************************************************)
CompilerError(m, arg) == [kind |-> "CompilerError", m |-> m, arg |-> arg]

\* the reference to the fields dict of the FieldsNode of the AST
FieldsRef == [ref |-> "ast.fields.fields"]
Deref(st, r) == IF r = FieldsRef THEN PyDict(st.ast.fields.fields) ELSE r

\* BeanieQueryAdapter.__init__
BeanieQueryAdapter ==
    [query |-> PyDict(<<>>), sort_spec |-> <<>>, projection |-> None]

\* BeanieQueryCompiler.create_base_query
create_base_query(st) == [st EXCEPT !.adapter = BeanieQueryAdapter]

\* BeanieQueryAdapter.add_where_condition
add_where_condition(st, condition) ==
    IF Len(st.adapter.query.items) = 0
    THEN [st EXCEPT !.adapter.query = condition]
    ELSE IF HasKey(st.adapter.query.items, opAnd)
    THEN [st EXCEPT !.adapter.query.items =
             DictSet(@, opAnd,
                 PyList(Append(Item(@, opAnd).items, condition)))]
    ELSE [st EXCEPT !.adapter.query =
             Dict1(opAnd, PyList(<<st.adapter.query, condition>>))]

\* BeanieQueryAdapter.add_sort
add_sort(st, field, ascending) ==
    [st EXCEPT !.adapter.sort_spec =
        Append(@, <<field, IF ascending THEN 1 ELSE -1>>)]

\* variant that coerces the inclusion values of the dict it is handed, in
\* place, before it keeps the reference
set_projection_Coerce(st, fields) ==
    [st EXCEPT !.adapter.projection = fields,
               !.ast.fields.fields =
                   [i \in 1..Len(@) |-> Entry(@[i].k, PyBool(@[i].v.n = 1))]]

\* BeanieQueryAdapter.set_projection
set_projection(st, fields) == [st EXCEPT !.adapter.projection = fields]

\* a key the built result does not have
Absent == [t |-> "absent"]

\* BeanieQueryAdapter.build
adapter_build(st) ==
    [filter |-> IF Len(st.adapter.query.items) > 0
                THEN st.adapter.query ELSE Absent,
     sort |-> IF Len(st.adapter.sort_spec) > 0
              THEN PyList(st.adapter.sort_spec) ELSE Absent,
     projection |-> IF /\ st.adapter.projection # None
                       /\ Len(Deref(st, st.adapter.projection).items) > 0
                    THEN Deref(st, st.adapter.projection) ELSE Absent]

EmptyResult == [filter |-> Absent, sort |-> Absent, projection |-> Absent]

\* the operator compilers of the beanie backend
SupportedOperators == ComparisonOperator \cup LogicalOperator

\* BeanieQueryCompiler.compile_field_condition
compile_field_condition(condition) ==
    IF condition.operator \notin SupportedOperators
    THEN CompilerError("Unsupported operator", condition.operator)
    ELSE IF condition.operator = opEq
    THEN Dict1(condition.field, condition.value)
    ELSE Dict1(condition.field, Dict1(condition.operator, condition.value))

RECURSIVE compile_condition(_)
RECURSIVE CompileChildrenFrom(_, _, _)

\* the list comprehension of compile_logical_condition, child i on
CompileChildrenFrom(conditions, i, acc) ==
    IF i > Len(conditions) THEN PyList(acc)
    ELSE LET r == compile_condition(conditions[i])
         IN  IF Raises(r) THEN r
             ELSE CompileChildrenFrom(conditions, i + 1, Append(acc, r))

\* BeanieQueryCompiler.compile_logical_condition
compile_logical_condition(condition) ==
    IF condition.operator \notin SupportedOperators
    THEN CompilerError("Unsupported logical operator", condition.operator)
    ELSE LET compiled_conditions ==
                 CompileChildrenFrom(condition.conditions, 1, <<>>)
         IN  IF Raises(compiled_conditions) THEN compiled_conditions
             ELSE Dict1(condition.operator, compiled_conditions)

\* compile_condition_helper (core/compiler_base.py)
compile_condition(condition) ==
    IF IsFieldCondition(condition) THEN compile_field_condition(condition)
    ELSE IF IsLogicalCondition(condition)
    THEN compile_logical_condition(condition)
    ELSE CompilerError("Unknown condition type", <<>>)

\* BeanieQueryCompiler.apply_order: for order_node in order_nodes
RECURSIVE apply_order(_, _, _)
apply_order(st, order_nodes, i) ==
    IF i > Len(order_nodes) THEN st
    ELSE apply_order(add_sort(st, order_nodes[i].field,
                              order_nodes[i].ascending),
                     order_nodes, i + 1)

\* BeanieQueryCompiler.apply_fields
apply_fields(st, fields_node) == set_projection(st, FieldsRef)

\* BeanieQueryCompiler.compile on the store st; fault is the exception an
\* operator compiler raises while the where tree is compiled, NoError when
\* none does
compile(st, fault) ==
    LET query == create_base_query(st)
        condition == IF st.ast.where # None
                     THEN IF IsError(fault) THEN fault
                          ELSE compile_condition(st.ast.where)
                     ELSE None
    IN  IF Raises(condition)
        THEN [raised |-> condition, store |-> query, result |-> None]
        ELSE LET with_where == IF st.ast.where # None
                               THEN add_where_condition(query, condition)
                               ELSE query
                 with_order == IF Len(st.ast.order) > 0
                               THEN apply_order(with_where, st.ast.order, 1)
                               ELSE with_where
                 with_fields == IF st.ast.fields # None
                                THEN apply_fields(with_order, st.ast.fields)
                                ELSE with_order
             IN  [raised |-> NoError, store |-> with_fields,
                  result |-> adapter_build(with_fields)]

(***************************************************************************)
(* QueryEngine.__call__ (dependency.py): the mapping of exceptions to      *)
(* HTTP responses                                                          *)
(***************************************************************************)
QEngineErrors ==
    {"ParseError", "ValidationError", "SecurityError", "CompilerError",
     "RegistryError"}
IsQEngineError(e) == e.kind \in QEngineErrors

\* str(e): the message of the exception, without its class
StrOf(e) == [x \in DOMAIN e \ {"kind"} |-> e[x]]

HTTPException(status_code, detail) ==
    [status_code |-> status_code, detail |-> detail]

GenericDetail == [literal |-> "Invalid filter specification"]

\* variant that reports every unexpected exception as in debug mode
handle_exception_Expose(debug, e) ==
    IF IsQEngineError(e)
    THEN HTTPException(400, [message |-> StrOf(e)])
    ELSE HTTPException(500, [prefix |-> "Internal error: ",
                             message |-> StrOf(e)])

\* the except clauses of __call__
handle_exception(debug, e) ==
    IF IsQEngineError(e)
    THEN HTTPException(400, [message |-> StrOf(e)])
    ELSE IF debug
    THEN HTTPException(500, [prefix |-> "Internal error: ",
                             message |-> StrOf(e)])
    ELSE HTTPException(400, GenericDetail)

(***************************************************************************)
(* Objects with identity: heap[id] is the present content of object id.    *)
(* A dict or list that is handed over is handed over as a reference, so a  *)
(* write through one holder is seen through every other.                   *)
(***************************************************************************)
Ref(id) == [ref |-> id]
IsRef(x) == "ref" \in DOMAIN x

\* a new object; its identity is Len(h) + 1
Alloc(h, object) == Append(h, object)

\* the Python value reached from x, references followed
RECURSIVE Value(_, _)
Value(h, x) ==
    IF IsRef(x) THEN Value(h, h[x.ref])
    ELSE IF x.t = "dict"
    THEN PyDict([i \in 1..Len(x.items) |->
                    Entry(x.items[i].k, Value(h, x.items[i].v))])
    ELSE IF x.t = "list"
    THEN PyList([i \in 1..Len(x.items) |-> Value(h, x.items[i])])
    ELSE x

\* BeanieQueryAdapter(): self.query = {}, self.sort_spec = [],
\* self.projection = None; query is the reference to the new empty dict
AdapterObject(query) ==
    [t |-> "adapter", query |-> query, sort_spec |-> <<>>,
     projection |-> None]

\* BeanieQueryAdapter.add_where_condition on the adapter object self, with
\* condition the reference the caller passes
AdapterAddWhere(h, self, condition) ==
    LET query == h[self].query
        items == h[query.ref].items
    IN  IF Len(items) = 0
        THEN [h EXCEPT ![self].query = condition]
        ELSE IF HasKey(items, opAnd)
        THEN [h EXCEPT ![query.ref].items =
                 DictSet(@, opAnd,
                     PyList(Append(Item(@, opAnd).items, condition)))]
        ELSE [Alloc(h, Dict1(opAnd, PyList(<<query, condition>>)))
                 EXCEPT ![self].query = Ref(Len(h) + 1)]

\* BeanieQueryAdapter.add_sort on the adapter object self
AdapterAddSort(h, self, field, ascending) ==
    [h EXCEPT ![self].sort_spec =
        Append(@, <<field, IF ascending THEN 1 ELSE -1>>)]

\* BeanieQueryAdapter.set_projection on the adapter object self
AdapterSetProjection(h, self, fields) == [h EXCEPT ![self].projection = fields]

\* BeanieQueryAdapter.build on the adapter object self
AdapterBuild(h, self) ==
    [filter |-> IF Len(h[h[self].query.ref].items) > 0
                THEN h[self].query ELSE Absent,
     sort |-> IF Len(h[self].sort_spec) > 0
              THEN PyList(h[self].sort_spec) ELSE Absent,
     projection |-> IF /\ h[self].projection # None
                       /\ Len(h[self].projection.items) > 0
                    THEN h[self].projection ELSE Absent]

\* no request has been handled: the cached compiler has no adapter yet
NoRequest ==
    /\ adapter = None
    /\ compiled = Unset
    /\ compile_calls = 0
    /\ response = Unset
    /\ heap = <<>>

(***************************************************************************)
(* FilterValidator.validate_ast_node (validator.py): the checks of one AST *)
(* node and of the nodes below it, collected as a list of messages.  A     *)
(* node is named by its path, the child indices from the argument down.    *)
(***************************************************************************)
NodeType(node) ==
    IF "t" \in DOMAIN node THEN node.t
    ELSE IF "ascending" \in DOMAIN node THEN "OrderNode"
    ELSE "FilterAST"

\* the ValidationRule of the tests: it reports a FieldCondition on one field
CustomRule(restricted) == [restricted |-> restricted]
rule_validate(rule, node) ==
    IF NodeType(node) = "FieldCondition" /\ node.field = rule.restricted
    THEN <<[m |-> "Custom validation error", arg |-> node.field]>>
    ELSE <<>>

\* what a validation method hands back: the exception that left it (NoError
\* when it returned), the messages, and the rule.validate calls it made
Visit(exception, errors, applied) ==
    [raised |-> exception, errors |-> errors, applied |-> applied]

\* except (ValidationError, SecurityError) as e: errors.append(str(e))
Caught(e) == e.kind \in {"ValidationError", "SecurityError"}
FieldAccessErrors(p, field_name) ==
    LET e == _validate_field_access(p, field_name)
    IN  IF ~IsError(e) THEN Visit(NoError, <<>>, <<>>)
        ELSE IF Caught(e) THEN Visit(NoError, <<StrOf(e)>>, <<>>)
        ELSE Visit(e, <<>>, <<>>)

_validate_field_condition(p, node) == FieldAccessErrors(p, node.field)

_validate_order_node(p, node) == FieldAccessErrors(p, node.field)

RECURSIVE ValidateFieldsFrom(_, _, _, _)
ValidateFieldsFrom(p, fields, i, acc) ==
    IF i > Len(fields) \/ IsError(acc.raised) THEN acc
    ELSE LET r == FieldAccessErrors(p, fields[i].k)
         IN  ValidateFieldsFrom(p, fields, i + 1,
                 Visit(r.raised, acc.errors \o r.errors, acc.applied))

_validate_fields_node(p, node) ==
    ValidateFieldsFrom(p, node.fields, 1, Visit(NoError, <<>>, <<>>))

EmptyConditions(operator) ==
    [m |-> "Logical operator cannot have empty conditions", arg |-> operator]

\* for rule in self.validation_rules: errors.extend(rule.validate(node))
RECURSIVE ApplyRulesFrom(_, _, _, _, _)
ApplyRulesFrom(rules, node, path, i, acc) ==
    IF i > Len(rules) THEN acc
    ELSE ApplyRulesFrom(rules, node, path, i + 1,
             Visit(acc.raised, acc.errors \o rule_validate(rules[i], node),
                   Append(acc.applied, [rule |-> i, path |-> path])))

RECURSIVE validate_ast_node(_, _, _, _)
RECURSIVE ValidateConditionsFrom(_, _, _, _, _, _)
\* for condition in node.conditions:
\*     errors.extend(self.validate_ast_node(condition))
ValidateConditionsFrom(p, rules, conditions, path, i, acc) ==
    IF i > Len(conditions) \/ IsError(acc.raised) THEN acc
    ELSE LET r == validate_ast_node(p, rules, conditions[i], Append(path, i))
         IN  ValidateConditionsFrom(p, rules, conditions, path, i + 1,
                 Visit(r.raised, acc.errors \o r.errors,
                       acc.applied \o r.applied))

\* variant that checks the node itself and leaves its children alone
_validate_logical_condition_Shallow(p, rules, node, path) ==
    Visit(NoError,
          IF Len(node.conditions) = 0
          THEN <<EmptyConditions(node.operator)>> ELSE <<>>,
          <<>>)

_validate_logical_condition(p, rules, node, path) ==
    ValidateConditionsFrom(p, rules, node.conditions, path, 1,
        Visit(NoError,
              IF Len(node.conditions) = 0
              THEN <<EmptyConditions(node.operator)>> ELSE <<>>,
              <<>>))

validate_ast_node(p, rules, node, path) ==
    LET type == NodeType(node)
        builtin ==
            IF type = "FieldCondition" THEN _validate_field_condition(p, node)
            ELSE IF type = "LogicalCondition"
            THEN _validate_logical_condition(p, rules, node, path)
            ELSE IF type = "OrderNode" THEN _validate_order_node(p, node)
            ELSE IF type = "FieldsNode" THEN _validate_fields_node(p, node)
            ELSE Visit(NoError, <<>>, <<>>)
    IN  IF IsError(builtin.raised) THEN builtin
        ELSE ApplyRulesFrom(rules, node, path, 1, builtin)

\* the validator has no custom rule and validate_ast_node was not called
NoValidation ==
    /\ validation_rules = <<>>
    /\ validation = NoCall

(***************************************************************************)
(* QueryEngine.process_filter (dependency.py): one action per stage call   *)
(***************************************************************************)
Call(stage, arg) == [stage |-> stage, arg |-> arg]

Init ==
    /\ \E sc \in Scenarios :
           /\ filter_input = sc[1]
           /\ security_policy = sc[2]
           /\ config = sc[3]
    /\ pc = "parse"
    /\ parsed_input = Unset
    /\ normalized_input = Unset
    /\ ast = Unset
    /\ optimized_ast = Unset
    /\ ast_id = NoObject
    /\ optimized_ast_id = NoObject
    /\ raised = NoError
    /\ calls = <<>>
    /\ RegistryInit
    /\ NoRequest
    /\ NoValidation

\* 1. parsed_input = self.parser.parse(filter_input)
ParseStage ==
    /\ pc = "parse"
    /\ LET r == parse(config.parser, filter_input)
       IN  /\ calls' = Append(calls, Call("parse", filter_input))
           /\ IF Raises(r)
              THEN raised' = r /\ pc' = "raised" /\ UNCHANGED parsed_input
              ELSE parsed_input' = r /\ pc' = "normalize" /\ UNCHANGED raised
    /\ UNCHANGED <<filter_input, security_policy, config, normalized_input,
                   ast, optimized_ast, ast_id, optimized_ast_id>>
    /\ UNCHANGED <<registryVars, requestVars, validatorVars>>

\* 2. normalized_input = self.normalizer.normalize(parsed_input)
NormalizeStage ==
    /\ pc = "normalize"
    /\ LET r == normalize(parsed_input)
       IN  /\ calls' = Append(calls, Call("normalize", parsed_input))
           /\ IF Raises(r)
              THEN raised' = r /\ pc' = "raised" /\ UNCHANGED normalized_input
              ELSE normalized_input' = r /\ pc' = "validate" /\ UNCHANGED raised
    /\ UNCHANGED <<filter_input, security_policy, config, parsed_input,
                   ast, optimized_ast, ast_id, optimized_ast_id>>
    /\ UNCHANGED <<registryVars, requestVars, validatorVars>>

\* variant of step 3 that drops the validator's exception and goes on to build
ValidateStage_Swallow ==
    /\ pc = "validate"
    /\ LET r == validate_filter_input(security_policy, normalized_input)
       IN  /\ calls' = Append(calls, Call("validate", normalized_input))
           /\ IF IsError(r)
              THEN raised' = r /\ pc' = "build"
              ELSE pc' = "build" /\ UNCHANGED raised
    /\ UNCHANGED <<filter_input, security_policy, config, parsed_input,
                   normalized_input, ast, optimized_ast, ast_id,
                   optimized_ast_id>>
    /\ UNCHANGED <<registryVars, requestVars, validatorVars>>

\* 3. self.validator.validate_filter_input(normalized_input)
ValidateStage ==
    /\ pc = "validate"
    /\ LET r == validate_filter_input(security_policy, normalized_input)
       IN  /\ calls' = Append(calls, Call("validate", normalized_input))
           /\ IF IsError(r)
              THEN raised' = r /\ pc' = "raised"
              ELSE pc' = "build" /\ UNCHANGED raised
    /\ UNCHANGED <<filter_input, security_policy, config, parsed_input,
                   normalized_input, ast, optimized_ast, ast_id,
                   optimized_ast_id>>
    /\ UNCHANGED <<registryVars, requestVars, validatorVars>>

\* 4. ast = self.ast_builder.build(normalized_input)
BuildStage ==
    /\ pc = "build"
    /\ LET r == build(normalized_input)
       IN  /\ calls' = Append(calls, Call("build", normalized_input))
           /\ IF Raises(r)
              THEN raised' = r /\ pc' = "raised" /\ UNCHANGED <<ast, ast_id>>
              ELSE /\ ast' = r
                   /\ ast_id' = NewObject({ast_id, optimized_ast_id})
                   /\ pc' = "optimize"
                   /\ UNCHANGED raised
    /\ UNCHANGED <<filter_input, security_policy, config, parsed_input,
                   normalized_input, optimized_ast, optimized_ast_id>>
    /\ UNCHANGED <<registryVars, requestVars, validatorVars>>

\* 5. optimized_ast = self.optimizer.optimize(ast); return optimized_ast
OptimizeStage ==
    /\ pc = "optimize"
    /\ optimized_ast' = optimize(config.optimizer, ast)
    /\ optimized_ast_id' =
           optimize_returns(config.optimizer, ast, ast_id,
                            NewObject({ast_id, optimized_ast_id}))
    /\ calls' = Append(calls, Call("optimize", ast))
    /\ pc' = "done"
    /\ UNCHANGED <<filter_input, security_policy, config, parsed_input,
                   normalized_input, ast, ast_id, raised>>
    /\ UNCHANGED <<registryVars, requestVars, validatorVars>>

Next ==
    \/ ParseStage
    \/ NormalizeStage
    \/ ValidateStage
    \/ BuildStage
    \/ OptimizeStage

Spec == Init /\ [][Next]_vars

(***************************************************************************)
(* The registries in sequential use: one action per call                   *)
(***************************************************************************)
opBar == <<"$", "b", "a", "r">>
OperatorNames == {opFoo, opBar, <<"f", "o", "o">>}
Implementations == {"impl1", "impl2"}
BackendNames == {"beanie", "sqlalchemy"}
BackendLists == {None, PyList(<<>>), PyList(<<"beanie">>)}

\* process_filter is not running
PipelineIdle ==
    /\ filter_input = None
    /\ security_policy = Policy(None, None, MaxNest, MaxArray, None)
    /\ config = DefaultConfig
    /\ pc = "idle"
    /\ parsed_input = Unset
    /\ normalized_input = Unset
    /\ ast = Unset
    /\ optimized_ast = Unset
    /\ ast_id = NoObject
    /\ optimized_ast_id = NoObject
    /\ raised = NoError
    /\ calls = <<>>
    /\ NoRequest
    /\ NoValidation

RegistrySnapshot ==
    [operators |-> _operators, compilers |-> _compilers,
     instances |-> _instances]

\* the identities of the compiler instances some reference still holds
LiveInstances ==
    {_instances[i].v.id : i \in 1..Len(_instances)} \cup
    (IF last_call.op = "get_compiler" /\ ~IsError(last_call.raised)
     THEN {last_call.value.id} ELSE {})

RegisterOperator ==
    /\ \E name \in OperatorNames, implementation \in Implementations,
          backends \in BackendLists :
           LET r == register_operator(_operators, name, implementation,
                                      backends)
           IN  /\ _operators' = r.operators
               /\ last_call' = [op |-> "register_operator", name |-> name,
                                implementation |-> implementation,
                                backends |-> backends, raised |-> r.raised,
                                before |-> RegistrySnapshot]
    /\ UNCHANGED <<_compilers, _instances, threads>>
    /\ UNCHANGED pipelineVars

GetOperator ==
    /\ \E name \in OperatorNames, backend \in BackendNames \cup {NoBackend} :
           LET r == get_operator(_operators, name, backend)
           IN  last_call' = [op |-> "get_operator", name |-> name,
                             backend |-> backend, raised |-> r.raised,
                             value |-> r.value, before |-> RegistrySnapshot]
    /\ UNCHANGED <<_operators, _compilers, _instances, threads>>
    /\ UNCHANGED pipelineVars

RegisterCompiler ==
    /\ \E backend_name \in BackendNames,
          compiler_class \in CompilerClasses \cup {NotACompiler} :
           LET r == register_compiler(_compilers, _instances, backend_name,
                                      compiler_class)
           IN  /\ _compilers' = r.compilers
               /\ _instances' = r.instances
               /\ last_call' = [op |-> "register_compiler",
                                backend_name |-> backend_name,
                                compiler_class |-> compiler_class,
                                raised |-> r.raised,
                                before |-> RegistrySnapshot]
    /\ UNCHANGED <<_operators, threads>>
    /\ UNCHANGED pipelineVars

GetCompiler ==
    /\ \E backend_name \in BackendNames :
           LET r == get_compiler(_compilers, _instances, backend_name,
                                 NewObject(LiveInstances))
           IN  /\ _instances' = r.instances
               /\ last_call' = [op |-> "get_compiler",
                                backend_name |-> backend_name,
                                raised |-> r.raised, value |-> r.value,
                                before |-> RegistrySnapshot]
    /\ UNCHANGED <<_operators, _compilers, threads>>
    /\ UNCHANGED pipelineVars

UnregisterCompiler ==
    /\ \E backend_name \in BackendNames :
           LET r == unregister_compiler(_compilers, _instances, backend_name)
           IN  /\ _compilers' = r.compilers
               /\ _instances' = r.instances
               /\ last_call' = [op |-> "unregister_compiler",
                                backend_name |-> backend_name,
                                raised |-> r.raised,
                                before |-> RegistrySnapshot]
    /\ UNCHANGED <<_operators, threads>>
    /\ UNCHANGED pipelineVars

\* the engine is idle and both registries are newly constructed
RegistryStart == PipelineIdle /\ RegistryInit

RegistryNext ==
    \/ RegisterOperator
    \/ GetOperator
    \/ RegisterCompiler
    \/ GetCompiler
    \/ UnregisterCompiler

RegistrySpec == RegistryStart /\ [][RegistryNext]_vars

IsRegistered ==
    /\ \E name \in OperatorNames, backend \in BackendNames \cup {NoBackend} :
           last_call' = [op |-> "is_registered", name |-> name,
                         backend |-> backend, raised |-> NoError,
                         value |-> [b |-> is_registered(_operators, name,
                                                        backend)],
                         before |-> RegistrySnapshot]
    /\ UNCHANGED <<_operators, _compilers, _instances, threads>>
    /\ UNCHANGED pipelineVars

ListOperators ==
    /\ \E backend \in BackendNames \cup {NoBackend} :
           last_call' = [op |-> "list_operators", backend |-> backend,
                         raised |-> NoError,
                         value |-> [names |-> list_operators(_operators,
                                                             backend)],
                         before |-> RegistrySnapshot]
    /\ UNCHANGED <<_operators, _compilers, _instances, threads>>
    /\ UNCHANGED pipelineVars

OperatorRegistryNext ==
    \/ RegisterOperator
    \/ GetOperator
    \/ IsRegistered
    \/ ListOperators
OperatorRegistrySpec ==
    RegistryStart /\ [][OperatorRegistryNext]_vars

CompilerRegistryNext == RegisterCompiler \/ GetCompiler \/ UnregisterCompiler
CompilerRegistrySpec ==
    RegistryStart /\ [][CompilerRegistryNext]_vars

(***************************************************************************)
(* The global registries shared by threads: one action per access of a     *)
(* registry dict.  The registry takes no lock, so a thread switch can fall *)
(* between any two accesses.  Thread Writer registers, the others look up. *)
(***************************************************************************)
MaxThreadCalls == 2
Writer == CHOOSE t \in ThreadIds : \A u \in ThreadIds : t <= u
SharedBackend == "beanie"
OperatorRegistrations ==
    {<<"impl1", PyList(<<"beanie">>)>>, <<"impl2", PyList(<<"sqlalchemy">>)>>}

WriterCalls ==
    {[op |-> "register_compiler", backend_name |-> SharedBackend,
      compiler_class |-> c] : c \in CompilerClasses \cup {NotACompiler}}
    \cup
    {[op |-> "register_operator", name |-> opFoo, implementation |-> r[1],
      backends |-> r[2]] : r \in OperatorRegistrations}

ReaderCalls ==
    {[op |-> "get_compiler", backend_name |-> SharedBackend]} \cup
    {[op |-> "get_operator", name |-> opFoo, backend |-> b] :
         b \in BackendNames}

InCall(t, label) == threads[t].pc = label

\* thread t goes on to the statement at label
Goto(t, label) == threads' = [threads EXCEPT ![t].pc = label]

\* the call of thread t returns value or raises
Return(t, exception, value) ==
    threads' = [threads EXCEPT
                   ![t] = Returned(threads[t].n, threads[t].call,
                                   [raised |-> exception, value |-> value])]

\* the identities of the compiler instances some reference still holds
LiveThreadInstances ==
    {_instances[i].v.id : i \in 1..Len(_instances)} \cup
    UNION {IF /\ threads[t].call.op = "get_compiler"
              /\ threads[t].pc = "idle"
              /\ ~IsError(threads[t].result.raised)
           THEN {threads[t].result.value.id} ELSE {} : t \in ThreadIds}

\* a thread enters a registry method; the tests of the arguments alone
\* (issubclass, name.startswith) are made on entry
BeginCall ==
    /\ \E t \in ThreadIds :
        /\ InCall(t, "idle")
        /\ threads[t].n < MaxThreadCalls
        /\ \E call \in (IF t = Writer THEN WriterCalls ELSE ReaderCalls) :
            LET entered(label) ==
                    [pc |-> label, n |-> threads[t].n + 1, call |-> call,
                     local |-> None, result |-> NoCall]
            IN  threads' = [threads EXCEPT ![t] =
                    CASE call.op = "register_compiler" ->
                             IF issubclass_QueryCompiler(call.compiler_class)
                             THEN entered("register_compiler_store")
                             ELSE Returned(threads[t].n + 1, call,
                                      [raised |-> RegistryError(
                                           "must implement QueryCompiler",
                                           call.backend_name),
                                       value |-> None])
                      [] call.op = "register_operator" ->
                             IF startswith(call.name, "$")
                             THEN entered("register_operator_store")
                             ELSE Returned(threads[t].n + 1, call,
                                      [raised |-> RegistryError(
                                           "Operator names must start with '$'",
                                           call.name),
                                       value |-> None])
                      [] call.op = "get_compiler" ->
                             entered("get_compiler_check")
                      [] call.op = "get_operator" ->
                             entered("get_operator_check")]
    /\ UNCHANGED <<_operators, _compilers, _instances, last_call>>
    /\ UNCHANGED pipelineVars

\* self._compilers[backend_name] = compiler_class
RegisterCompilerStore ==
    /\ \E t \in ThreadIds :
        /\ InCall(t, "register_compiler_store")
        /\ _compilers' = DictSet(_compilers, threads[t].call.backend_name,
                                 threads[t].call.compiler_class)
        /\ Goto(t, "register_compiler_test")
    /\ UNCHANGED <<_operators, _instances, last_call>>
    /\ UNCHANGED pipelineVars

\* if backend_name in self._instances:
RegisterCompilerTest ==
    /\ \E t \in ThreadIds :
        /\ InCall(t, "register_compiler_test")
        /\ IF HasKey(_instances, threads[t].call.backend_name)
           THEN Goto(t, "register_compiler_del")
           ELSE Return(t, NoError, None)
    /\ UNCHANGED <<_operators, _compilers, _instances, last_call>>
    /\ UNCHANGED pipelineVars

\* del self._instances[backend_name]
RegisterCompilerDelete ==
    /\ \E t \in ThreadIds :
        /\ InCall(t, "register_compiler_del")
        /\ IF HasKey(_instances, threads[t].call.backend_name)
           THEN /\ _instances' = DictDel(_instances,
                                         threads[t].call.backend_name)
                /\ Return(t, NoError, None)
           ELSE /\ UNCHANGED _instances
                /\ Return(t, KeyError(threads[t].call.backend_name), None)
    /\ UNCHANGED <<_operators, _compilers, last_call>>
    /\ UNCHANGED pipelineVars

\* if backend_name not in self._compilers: raise RegistryError
GetCompilerCheck ==
    /\ \E t \in ThreadIds :
        /\ InCall(t, "get_compiler_check")
        /\ IF ~HasKey(_compilers, threads[t].call.backend_name)
           THEN Return(t, RegistryError("No compiler registered",
                                        threads[t].call.backend_name), None)
           ELSE Goto(t, "get_compiler_test")
    /\ UNCHANGED <<_operators, _compilers, _instances, last_call>>
    /\ UNCHANGED pipelineVars

\* if backend_name not in self._instances:
GetCompilerTest ==
    /\ \E t \in ThreadIds :
        /\ InCall(t, "get_compiler_test")
        /\ IF ~HasKey(_instances, threads[t].call.backend_name)
           THEN Goto(t, "get_compiler_class")
           ELSE Goto(t, "get_compiler_return")
    /\ UNCHANGED <<_operators, _compilers, _instances, last_call>>
    /\ UNCHANGED pipelineVars

\* compiler_class = self._compilers[backend_name]
GetCompilerClass ==
    /\ \E t \in ThreadIds :
        /\ InCall(t, "get_compiler_class")
        /\ IF HasKey(_compilers, threads[t].call.backend_name)
           THEN threads' = [threads EXCEPT
                    ![t].pc = "get_compiler_new",
                    ![t].local = [compiler_class |->
                        Item(_compilers, threads[t].call.backend_name)]]
           ELSE Return(t, KeyError(threads[t].call.backend_name), None)
    /\ UNCHANGED <<_operators, _compilers, _instances, last_call>>
    /\ UNCHANGED pipelineVars

\* self._instances[backend_name] = compiler_class()
GetCompilerConstruct ==
    /\ \E t \in ThreadIds :
        /\ InCall(t, "get_compiler_new")
        /\ _instances' = DictSet(_instances, threads[t].call.backend_name,
                             Instance(threads[t].local.compiler_class,
                                      NewObject(LiveThreadInstances)))
        /\ Goto(t, "get_compiler_return")
    /\ UNCHANGED <<_operators, _compilers, last_call>>
    /\ UNCHANGED pipelineVars

\* return self._instances[backend_name]
GetCompilerReturn ==
    /\ \E t \in ThreadIds :
        /\ InCall(t, "get_compiler_return")
        /\ IF HasKey(_instances, threads[t].call.backend_name)
           THEN Return(t, NoError,
                       Item(_instances, threads[t].call.backend_name))
           ELSE Return(t, KeyError(threads[t].call.backend_name), None)
    /\ UNCHANGED <<_operators, _compilers, _instances, last_call>>
    /\ UNCHANGED pipelineVars

\* self._operators[name] = {'implementation': ..., 'backends': ...}
RegisterOperatorStore ==
    /\ \E t \in ThreadIds :
        /\ InCall(t, "register_operator_store")
        /\ _operators' = DictSet(_operators, threads[t].call.name,
                             OperatorInfo(threads[t].call.implementation,
                                          threads[t].call.backends))
        /\ Return(t, NoError, None)
    /\ UNCHANGED <<_compilers, _instances, last_call>>
    /\ UNCHANGED pipelineVars

\* if name not in self._operators: raise RegistryError
GetOperatorCheck ==
    /\ \E t \in ThreadIds :
        /\ InCall(t, "get_operator_check")
        /\ IF ~HasKey(_operators, threads[t].call.name)
           THEN Return(t, RegistryError("Unknown operator",
                                        threads[t].call.name), None)
           ELSE Goto(t, "get_operator_read")
    /\ UNCHANGED <<_operators, _compilers, _instances, last_call>>
    /\ UNCHANGED pipelineVars

\* operator_info = self._operators[name]
GetOperatorRead ==
    /\ \E t \in ThreadIds :
        /\ InCall(t, "get_operator_read")
        /\ IF HasKey(_operators, threads[t].call.name)
           THEN threads' = [threads EXCEPT
                    ![t].pc = "get_operator_return",
                    ![t].local = [operator_info |->
                        Item(_operators, threads[t].call.name)]]
           ELSE Return(t, KeyError(threads[t].call.name), None)
    /\ UNCHANGED <<_operators, _compilers, _instances, last_call>>
    /\ UNCHANGED pipelineVars

\* the backend test on operator_info; return operator_info['implementation']
GetOperatorReturn ==
    /\ \E t \in ThreadIds :
        /\ InCall(t, "get_operator_return")
        /\ IF BackendRefused(threads[t].local.operator_info,
                             threads[t].call.backend)
           THEN Return(t, RegistryError("not supported for backend",
                                        threads[t].call.name), None)
           ELSE Return(t, NoError,
                       [implementation |->
                            threads[t].local.operator_info.implementation])
    /\ UNCHANGED <<_operators, _compilers, _instances, last_call>>
    /\ UNCHANGED pipelineVars

ConcurrentNext ==
    \/ BeginCall
    \/ RegisterCompilerStore
    \/ RegisterCompilerTest
    \/ RegisterCompilerDelete
    \/ GetCompilerCheck
    \/ GetCompilerTest
    \/ GetCompilerClass
    \/ GetCompilerConstruct
    \/ GetCompilerReturn
    \/ RegisterOperatorStore
    \/ GetOperatorCheck
    \/ GetOperatorRead
    \/ GetOperatorReturn

ConcurrentRegistrySpec ==
    RegistryStart /\ [][ConcurrentNext]_vars

(***************************************************************************)
(* QueryEngine.__call__ (dependency.py): a request goes through            *)
(* process_filter and compile_ast, and exceptions become HTTP responses.   *)
(* The engine has backend "beanie" and no model class, so compile_ast      *)
(* takes the compiler from compiler_registry.                              *)
(***************************************************************************)
MaxCompileCalls == 2
Backend == "beanie"
BeanieCompilerClass == "BeanieQueryCompiler"

\* exceptions that are no QEngineError, raised by an operator compiler
UnexpectedExceptions ==
    {[kind |-> "ValueError", m |-> "Unknown error", arg |-> <<>>],
     [kind |-> "RuntimeError", m |-> "Should not be visible", arg |-> <<>>]}

RequestWheres ==
    {None,
     Dict1(fA, PyInt(1)),
     Dict1(fX, PyInt(1)),
     Dict1(fA, Dict1(opGt, PyInt(1))),
     Dict1(fA, Dict1(opFoo, PyInt(1))),
     Dict1(fA, Dict1(<<"b", "a", "d">>, PyInt(1))),
     Dict1(opAnd, PyList(<<Dict1(fA, PyInt(1)),
                           Dict1(fB, Dict1(opIn, IntList(2)))>>))}

RequestScenarios ==
    {<<FilterMapping(w, o, f), Policy(blocked, None, MaxNest, MaxArray, None),
       DefaultConfig>> :
         w \in RequestWheres,
         o \in {None, PyStr(fA \o <<",", "-">> \o fB)},
         f \in {None, Dict1(fA, PyInt(1)),
                PyDict(<<Entry(fA, PyInt(1)), Entry(fB, PyInt(0))>>)},
         blocked \in {None, PySet({fX})}}
    \cup
    {<<t, Policy(None, None, MaxNest, MaxArray, None), DefaultConfig>> :
         t \in {None, MalformedJson}}

\* QueryEngine.__init__ has registered the beanie compiler
RequestInit ==
    /\ \E sc \in RequestScenarios, debug \in BOOLEAN :
           /\ filter_input = sc[1]
           /\ security_policy = sc[2]
           /\ config = [sc[3] EXCEPT !.debug = debug]
    /\ pc = "call"
    /\ parsed_input = Unset
    /\ normalized_input = Unset
    /\ ast = Unset
    /\ optimized_ast = Unset
    /\ ast_id = NoObject
    /\ optimized_ast_id = NoObject
    /\ raised = NoError
    /\ calls = <<>>
    /\ _operators = <<>>
    /\ _compilers = <<Entry(Backend, BeanieCompilerClass)>>
    /\ _instances = <<>>
    /\ last_call = NoCall
    /\ threads = [t \in ThreadIds |-> Idle]
    /\ NoRequest
    /\ NoValidation

\* __call__ up to process_filter: without a filter the empty result is
\* returned at once
BeginRequest ==
    /\ pc = "call"
    /\ IF filter_input = None
       THEN response' = [returned |-> PyDict(<<>>)] /\ pc' = "responded"
       ELSE pc' = "parse" /\ UNCHANGED response
    /\ UNCHANGED <<filter_input, security_policy, config, parsed_input,
                   normalized_input, ast, optimized_ast, ast_id,
                   optimized_ast_id, raised, calls, adapter, compiled,
                   compile_calls, heap>>
    /\ UNCHANGED <<registryVars, validatorVars>>

\* compile_ast(ast): compiler_registry.get_compiler(self.backend), then
\* compiler.compile(ast)
CompileStage ==
    /\ \/ pc = "done"
       \/ pc = "compiled" /\ compile_calls < MaxCompileCalls
    /\ compile_calls' = compile_calls + 1
    /\ calls' = Append(calls, Call("compile", optimized_ast))
    /\ LET g == get_compiler(_compilers, _instances, Backend,
                    NewObject({_instances[i].v.id : i \in 1..Len(_instances)}))
       IN  /\ _instances' = g.instances
           /\ IF IsError(g.raised)
              THEN /\ raised' = g.raised
                   /\ pc' = "raised"
                   /\ UNCHANGED <<optimized_ast, adapter, compiled>>
              ELSE \E fault \in {NoError} \cup UnexpectedExceptions :
                       LET r == compile([ast |-> optimized_ast,
                                         adapter |-> adapter], fault)
                       IN  /\ optimized_ast' = r.store.ast
                           /\ adapter' = r.store.adapter
                           /\ IF IsError(r.raised)
                              THEN /\ raised' = r.raised
                                   /\ pc' = "raised"
                                   /\ UNCHANGED compiled
                              ELSE /\ compiled' = r.result
                                   /\ pc' = "compiled"
                                   /\ UNCHANGED raised
    /\ UNCHANGED <<filter_input, security_policy, config, parsed_input,
                   normalized_input, ast, ast_id, optimized_ast_id, response,
                   heap>>
    /\ UNCHANGED <<_operators, _compilers, last_call, threads, validatorVars>>

\* __call__ returns the compiled query, or its except clauses raise the
\* HTTPException
Respond ==
    /\ pc \in {"compiled", "raised"}
    /\ response' = IF pc = "compiled" THEN [returned |-> compiled]
                   ELSE handle_exception(config.debug, raised)
    /\ pc' = "responded"
    /\ UNCHANGED <<filter_input, security_policy, config, parsed_input,
                   normalized_input, ast, optimized_ast, ast_id,
                   optimized_ast_id, raised, calls, adapter, compiled,
                   compile_calls, heap>>
    /\ UNCHANGED <<registryVars, validatorVars>>

RequestNext ==
    \/ BeginRequest
    \/ ParseStage
    \/ NormalizeStage
    \/ ValidateStage
    \/ BuildStage
    \/ OptimizeStage
    \/ CompileStage
    \/ Respond

RequestSpec == RequestInit /\ [][RequestNext]_vars

(***************************************************************************)
(* A FilterValidator used on AST nodes: add_validation_rule and            *)
(* validate_ast_node, on nodes built directly as the tests build them.     *)
(***************************************************************************)
MaxRules == 2
ValidationRules == {CustomRule(fA), CustomRule(fX)}

LeafNodes ==
    {FieldCondition(f, opEq, PyInt(1)) : f \in {fA, fB, fX, <<>>}}

AstNodes ==
    LeafNodes
    \cup {LogicalCondition(op, <<>>) : op \in {opAnd, opNor}}
    \cup {LogicalCondition(opAnd, <<c1, c2>>) :
              c1 \in {FieldCondition(fA, opEq, PyInt(1))},
              c2 \in LeafNodes}
    \cup {LogicalCondition(opOr,
              <<FieldCondition(fX, opEq, PyInt(1)),
                LogicalCondition(opAnd, <<c, LogicalCondition(opNor, <<>>),
                                          c>>)>>) :
              c \in {FieldCondition(fA, opEq, PyInt(1)),
                     FieldCondition(fX, opEq, PyInt(1))}}
    \cup {OrderNode(f, asc) : f \in {fA, fX}, asc \in BOOLEAN}
    \cup {FieldsNode(<<Entry(fA, PyInt(1))>>),
          FieldsNode(<<Entry(fX, PyInt(1)), Entry(fB, PyInt(1)),
                       Entry(fX \o fA, PyInt(0))>>)}
    \cup {FilterAST(None, <<>>, None),
          FilterAST(FieldCondition(fX, opEq, PyInt(1)), <<>>, None)}

ValidatorInit ==
    /\ filter_input = None
    /\ \E fp \in FieldPolicies :
           security_policy = Policy(fp[1], fp[2], MaxNest, MaxArray, None)
    /\ config = DefaultConfig
    /\ pc = "idle"
    /\ parsed_input = Unset
    /\ normalized_input = Unset
    /\ ast = Unset
    /\ optimized_ast = Unset
    /\ ast_id = NoObject
    /\ optimized_ast_id = NoObject
    /\ raised = NoError
    /\ calls = <<>>
    /\ RegistryInit
    /\ NoRequest
    /\ NoValidation

\* validator.add_validation_rule(rule)
AddValidationRule ==
    /\ pc = "idle"
    /\ Len(validation_rules) < MaxRules
    /\ \E rule \in ValidationRules :
           validation_rules' = Append(validation_rules, rule)
    /\ UNCHANGED <<filter_input, security_policy, config, pc, parsed_input,
                   normalized_input, ast, optimized_ast, ast_id,
                   optimized_ast_id, raised, calls, validation>>
    /\ UNCHANGED <<registryVars, requestVars>>

\* errors = validator.validate_ast_node(node)
ValidateAstNode ==
    /\ pc = "idle"
    /\ \E node \in AstNodes :
           LET r == validate_ast_node(security_policy, validation_rules,
                                      node, <<>>)
           IN  validation' = [op |-> "validate_ast_node", node |-> node,
                              rules |-> validation_rules,
                              raised |-> r.raised, value |-> r.errors,
                              applied |-> r.applied]
    /\ UNCHANGED <<filter_input, security_policy, config, pc, parsed_input,
                   normalized_input, ast, optimized_ast, ast_id,
                   optimized_ast_id, raised, calls, validation_rules>>
    /\ UNCHANGED <<registryVars, requestVars>>

ValidatorNext ==
    \/ AddValidationRule
    \/ ValidateAstNode

ValidatorSpec == ValidatorInit /\ [][ValidatorNext]_vars

(***************************************************************************)
(* A BeanieQueryAdapter used directly, as the adapter tests use it: the    *)
(* caller makes an adapter, passes it condition mappings and builds.       *)
(***************************************************************************)
MaxConditions == 3

\* the condition mappings a caller passes; each call passes a new object
WhereConditions ==
    {Dict1(fA, PyInt(1)),
     Dict1(fB, Dict1(opGt, PyInt(1))),
     Dict1(opOr, PyList(<<Dict1(fA, PyInt(1)), Dict1(fB, PyInt(1))>>)),
     Dict1(opAnd, PyList(<<Dict1(fA, PyInt(1)), Dict1(fB, PyInt(1))>>))}

\* adapter = BeanieQueryAdapter()
NewAdapter ==
    /\ pc = "idle"
    /\ heap' = Alloc(Alloc(heap, PyDict(<<>>)), AdapterObject(Ref(Len(heap) + 1)))
    /\ adapter' = Ref(Len(heap) + 2)
    /\ pc' = "adapter"
    /\ UNCHANGED <<filter_input, security_policy, config, parsed_input,
                   normalized_input, ast, optimized_ast, ast_id,
                   optimized_ast_id, raised, calls, compiled, compile_calls,
                   response>>
    /\ UNCHANGED <<registryVars, validatorVars>>

\* adapter.add_where_condition(c) with a mapping c the caller has made
AddWhereCondition ==
    /\ pc = "adapter"
    /\ Len(calls) < MaxConditions
    /\ \E c \in WhereConditions :
           LET condition == Ref(Len(heap) + 1)
           IN  /\ heap' = AdapterAddWhere(Alloc(heap, c), adapter.ref, condition)
               /\ calls' = Append(calls,
                               Call("add_where_condition",
                                    [condition |-> condition, value |-> c,
                                     self |-> adapter, returned |-> adapter]))
    /\ UNCHANGED <<filter_input, security_policy, config, pc, parsed_input,
                   normalized_input, ast, optimized_ast, ast_id,
                   optimized_ast_id, raised, adapter, compiled, compile_calls,
                   response>>
    /\ UNCHANGED <<registryVars, validatorVars>>

\* adapter.build()
BuildAdapter ==
    /\ pc = "adapter"
    /\ compiled' = AdapterBuild(heap, adapter.ref)
    /\ pc' = "built"
    /\ UNCHANGED <<filter_input, security_policy, config, parsed_input,
                   normalized_input, ast, optimized_ast, ast_id,
                   optimized_ast_id, raised, calls, adapter, compile_calls,
                   response, heap>>
    /\ UNCHANGED <<registryVars, validatorVars>>

AdapterNext ==
    \/ NewAdapter
    \/ AddWhereCondition
    \/ BuildAdapter

AdapterSpec == RegistryStart /\ [][AdapterNext]_vars

(***************************************************************************)
(* compile(ast) called by two threads on the one BeanieQueryCompiler that  *)
(* compiler_registry caches: one action per statement of compile and of    *)
(* create_base_query, thread switches between any two of them.  adapter is *)
(* the attribute self.adapter, threads[t].local the local variable query.  *)
(***************************************************************************)
CompileThreads == {t \in ThreadIds : t # Writer}

CompileASTs ==
    {FilterAST(None, <<>>, None),
     FilterAST(FieldCondition(fA, opEq, PyInt(1)), <<OrderNode(fA, TRUE)>>,
               None),
     FilterAST(LogicalCondition(opAnd,
                   <<FieldCondition(fA, opGt, PyInt(1)),
                     FieldCondition(fB, opEq, PyInt(1))>>),
               <<>>, FieldsNode(<<Entry(fB, PyInt(1))>>))}

ConcurrentCompileInit ==
    /\ PipelineIdle
    /\ _operators = <<>>
    /\ _compilers = <<Entry(Backend, BeanieCompilerClass)>>
    /\ _instances = <<>>
    /\ last_call = NoCall
    /\ threads = [t \in ThreadIds |-> Idle]

\* compiler = compiler_registry.get_compiler("beanie"); compiler.compile(ast)
\* is entered
CompileCall ==
    \E t \in CompileThreads, a \in CompileASTs :
        /\ InCall(t, "idle")
        /\ threads[t].n < MaxThreadCalls
        /\ LET g == get_compiler(_compilers, _instances, Backend, 1)
           IN  /\ _instances' = g.instances
               /\ threads' = [threads EXCEPT ![t] =
                      [pc |-> "create", n |-> @.n + 1,
                       call |-> [op |-> "compile", ast |-> a,
                                 compiler |-> g.value.id],
                       local |-> None, result |-> NoCall]]
        /\ UNCHANGED <<_operators, _compilers, last_call>>
        /\ UNCHANGED pipelineVars

\* create_base_query: self.adapter = BeanieQueryAdapter()
CompileCreateAdapter ==
    \E t \in CompileThreads :
        /\ InCall(t, "create")
        /\ heap' = Alloc(Alloc(heap, PyDict(<<>>)),
                         AdapterObject(Ref(Len(heap) + 1)))
        /\ adapter' = Ref(Len(heap) + 2)
        /\ Goto(t, "return_adapter")
        /\ UNCHANGED <<filter_input, security_policy, config, pc,
                       parsed_input, normalized_input, ast, optimized_ast,
                       ast_id, optimized_ast_id, raised, calls, compiled,
                       compile_calls, response>>
        /\ UNCHANGED <<_operators, _compilers, _instances, last_call>>
        /\ UNCHANGED validatorVars

\* create_base_query: return self.adapter, assigned to query in compile
CompileReturnAdapter ==
    \E t \in CompileThreads :
        /\ InCall(t, "return_adapter")
        /\ threads' = [threads EXCEPT ![t].pc = "where", ![t].local = adapter]
        /\ UNCHANGED <<_operators, _compilers, _instances, last_call>>
        /\ UNCHANGED pipelineVars

\* if ast.where: query = self.apply_where(query, ast.where)
CompileWhere ==
    \E t \in CompileThreads :
        /\ InCall(t, "where")
        /\ LET where == threads[t].call.ast.where
               condition == IF where # None THEN compile_condition(where)
                            ELSE None
           IN  IF where = None
               THEN Goto(t, "order") /\ UNCHANGED heap
               ELSE IF Raises(condition)
               THEN Return(t, condition, None) /\ UNCHANGED heap
               ELSE /\ heap' = AdapterAddWhere(Alloc(heap, condition),
                                   threads[t].local.ref, Ref(Len(heap) + 1))
                    /\ Goto(t, "order")
        /\ UNCHANGED <<filter_input, security_policy, config, pc,
                       parsed_input, normalized_input, ast, optimized_ast,
                       ast_id, optimized_ast_id, raised, calls, adapter,
                       compiled, compile_calls, response>>
        /\ UNCHANGED <<_operators, _compilers, _instances, last_call>>
        /\ UNCHANGED validatorVars

\* the add_sort calls of apply_order on query, order node i on
RECURSIVE AdapterApplyOrder(_, _, _, _)
AdapterApplyOrder(h, self, order_nodes, i) ==
    IF i > Len(order_nodes) THEN h
    ELSE AdapterApplyOrder(
             AdapterAddSort(h, self, order_nodes[i].field,
                            order_nodes[i].ascending),
             self, order_nodes, i + 1)

\* if ast.order: query = self.apply_order(query, ast.order)
CompileOrder ==
    \E t \in CompileThreads :
        /\ InCall(t, "order")
        /\ heap' = AdapterApplyOrder(heap, threads[t].local.ref,
                                     threads[t].call.ast.order, 1)
        /\ Goto(t, "fields")
        /\ UNCHANGED <<filter_input, security_policy, config, pc,
                       parsed_input, normalized_input, ast, optimized_ast,
                       ast_id, optimized_ast_id, raised, calls, adapter,
                       compiled, compile_calls, response>>
        /\ UNCHANGED <<_operators, _compilers, _instances, last_call>>
        /\ UNCHANGED validatorVars

\* if ast.fields: query = self.apply_fields(query, ast.fields)
CompileFields ==
    \E t \in CompileThreads :
        /\ InCall(t, "fields")
        /\ LET fields == threads[t].call.ast.fields
           IN  heap' = IF fields = None THEN heap
                       ELSE AdapterSetProjection(heap, threads[t].local.ref,
                                                 PyDict(fields.fields))
        /\ Goto(t, "finalize")
        /\ UNCHANGED <<filter_input, security_policy, config, pc,
                       parsed_input, normalized_input, ast, optimized_ast,
                       ast_id, optimized_ast_id, raised, calls, adapter,
                       compiled, compile_calls, response>>
        /\ UNCHANGED <<_operators, _compilers, _instances, last_call>>
        /\ UNCHANGED validatorVars

\* return self.finalize_query(query); the result is kept as the value it
\* has when the call returns
CompileFinalize ==
    \E t \in CompileThreads :
        /\ InCall(t, "finalize")
        /\ LET built == AdapterBuild(heap, threads[t].local.ref)
           IN  Return(t, NoError,
                      [filter |-> Value(heap, built.filter),
                       sort |-> built.sort,
                       projection |-> built.projection])
        /\ UNCHANGED <<_operators, _compilers, _instances, last_call>>
        /\ UNCHANGED pipelineVars

ConcurrentCompileNext ==
    \/ CompileCall
    \/ CompileCreateAdapter
    \/ CompileReturnAdapter
    \/ CompileWhere
    \/ CompileOrder
    \/ CompileFields
    \/ CompileFinalize

ConcurrentCompileSpec == ConcurrentCompileInit /\ [][ConcurrentCompileNext]_vars

(***************************************************************************)
(* Properties of the pipeline                                              *)
(***************************************************************************)
StageOrder == <<"parse", "normalize", "validate", "build", "optimize">>

\* what the stage of call c hands back (a value or the exception it raises)
StageResult(c) ==
    CASE c.stage = "parse" -> parse(config.parser, c.arg)
      [] c.stage = "normalize" -> normalize(c.arg)
      [] c.stage = "validate" -> validate_filter_input(security_policy, c.arg)
      [] c.stage = "build" -> build(c.arg)
      [] c.stage = "optimize" -> optimize(config.optimizer, c.arg)

Failed(r) == "kind" \in DOMAIN r /\ r.kind # "ok"

\* C1: process_filter calls parse, normalize, validate, build, optimize in
\* that order; each stage is called with the value the stage before it
\* returned (validate returns nothing, so build is called with the value
\* normalize returned); the first stage that raises ends the pipeline, no
\* later stage is called and its exception is the one raised; the result is
\* returned only after all five stages succeeded.
C1_PipelineOrder ==
    /\ Len(calls) <= 5
    /\ \A i \in 1..Len(calls) : calls[i].stage = StageOrder[i]
    /\ \A i \in 1..(Len(calls) - 1) : ~Failed(StageResult(calls[i]))
    /\ Len(calls) >= 1 => calls[1].arg = filter_input
    /\ Len(calls) >= 2 => calls[2].arg = StageResult(calls[1])
    /\ Len(calls) >= 3 => calls[3].arg = StageResult(calls[2])
    /\ Len(calls) >= 4 => calls[4].arg = StageResult(calls[2])
    /\ Len(calls) >= 5 => calls[5].arg = StageResult(calls[4])
    /\ pc = "raised" <=>
           (Len(calls) >= 1 /\ Failed(StageResult(calls[Len(calls)])))
    /\ pc = "raised" =>
           raised = StageResult(calls[Len(calls)]) /\ optimized_ast = Unset
    /\ pc # "raised" => raised = NoError
    /\ pc = "done" <=> Len(calls) = 5
    /\ pc = "done" => optimized_ast = StageResult(calls[5])
    /\ pc # "done" => optimized_ast = Unset

\* a request that went through all five stages, and whose optimizer rewrote
\* the tree the builder produced
C1_Witness ==
    /\ pc = "done"
    /\ Len(calls) = 5
    /\ optimized_ast # ast

\* a request stopped by the validator: build and optimize were never called
C1_WitnessFailFast ==
    /\ pc = "raised"
    /\ Len(calls) = 3
    /\ raised.kind = "SecurityError"


\* the field names that are keys of the where mapping w, at any logical level
RECURSIVE WhereFieldKeys(_)
WhereFieldKeys(w) ==
    IF IsDict(w)
    THEN UNION {IF startswith(w.items[i].k, "$")
                THEN (IF IsList(w.items[i].v)
                      THEN UNION {WhereFieldKeys(w.items[i].v.items[j]) :
                                      j \in 1..Len(w.items[i].v.items)}
                      ELSE {})
                ELSE {w.items[i].k} : i \in 1..Len(w.items)}
    ELSE {}

FieldsKeys(f) == IF IsDict(f) THEN Keys(f) ELSE {}

\* the policy p without its restrictions on field x
Unrestricted(p, x) ==
    [p EXCEPT !.blocked_fields =
                  IF @ = None THEN None ELSE PySet(@.elems \ {x}),
              !.allowed_fields =
                  IF @ = None THEN None ELSE PySet(@.elems \cup {x})]

HasPart(e, m, arg) ==
    "parts" \in DOMAIN e /\
    \E i \in 1..Len(e.parts) : e.parts[i].m = m /\ e.parts[i].arg = arg

ModelFields == {fA, fB, fX}

\* C2: a field in blocked_fields is refused with the 'blocked' SecurityError
\* whether or not it is also in allowed_fields; a filter whose only violation
\* is a where key (at any logical level) or a fields key naming such a field
\* fails validate_filter_input with SecurityError.
C2_BlockedWins ==
    /\ \A x \in ModelFields :
           (security_policy.blocked_fields # None
            /\ Contains(security_policy.blocked_fields, x))
           => _validate_field_access(security_policy, x) =
                  SecurityError("Access to field is blocked", x)
    /\ \A x \in ModelFields :
           (/\ Len(calls) >= 3
            /\ security_policy.blocked_fields # None
            /\ Contains(security_policy.blocked_fields, x)
            /\ x \in WhereFieldKeys(normalized_input.where)
                       \cup FieldsKeys(normalized_input.fields)
            /\ validate_filter_input(Unrestricted(security_policy, x),
                                     normalized_input) = NoError)
           => /\ pc = "raised"
              /\ raised.kind = "SecurityError"
              /\ HasPart(raised, "Access to field is blocked", x)

\* the validator refused a filter that names, under a logical operator, a
\* field that is both blocked and whitelisted, and that has no other violation
C2_Witness ==
    /\ Len(calls) = 3
    /\ pc = "raised"
    /\ security_policy.blocked_fields = PySet({fX})
    /\ security_policy.allowed_fields # None
    /\ Contains(security_policy.allowed_fields, fX)
    /\ fX \in WhereFieldKeys(normalized_input.where)
    /\ \E i \in 1..Len(normalized_input.where.items) :
           startswith(normalized_input.where.items[i].k, "$")
    /\ validate_filter_input(Unrestricted(security_policy, fX),
                             normalized_input) = NoError
    /\ HasPart(raised, "Access to field is blocked", fX)


\* the validation stage has run and raised an error of the given kind
ValidatorRaised(kind) == Len(calls) = 3 /\ pc = "raised" /\ raised.kind = kind

\* the validation stage has run and accepted the filter
ValidatorAccepted == Len(calls) >= 3 /\ ~(Len(calls) = 3 /\ pc = "raised")

\* the field names of the OrderNodes the builder makes of a normalized order
OrderNodeFields(order) ==
    LET nodes == _build_order(order)
    IN  {nodes[i].field : i \in 1..Len(nodes)}

\* C3: order validation applies the field-access check to the field name the
\* builder puts in the OrderNode of each spec (f, -f, f ASC, f DESC, keyword
\* in any case): a blocked field makes validate_filter_input raise
\* SecurityError, and with a whitelist set an order naming only whitelisted,
\* non-blocked fields is accepted when the rest of the filter is.
C3_OrderFieldAccess ==
    (Len(calls) >= 3 /\ IsStr(normalized_input.order)) =>
        LET fields == OrderNodeFields(normalized_input.order)
            blocked == security_policy.blocked_fields
            allowed == security_policy.allowed_fields
        IN  /\ (\E f \in fields : Contains(blocked, f))
                   => ValidatorRaised("SecurityError")
            /\ (/\ Truthy(allowed)
                /\ \A f \in fields :
                       Contains(allowed, f) /\ ~Contains(blocked, f)
                /\ validate_filter_input(security_policy,
                       [normalized_input EXCEPT !.order = None]) = NoError)
                   => ValidatorAccepted


\* some part of the filter, taken by itself, is refused by the security policy
\* p: a blocked or non-whitelisted field name, a mapping nested too deep, an
\* array that is too long or a comparison operator outside allowed_operators
RECURSIVE WhereSecurityViolation(_, _, _)
OperatorSecurityViolation(p, operator, value, depth) ==
    \/ /\ p.allowed_operators # None
       /\ _get_operator_enum(operator) # None
       /\ ~Contains(p.allowed_operators, operator)
    \/ /\ operator \in LogicalOperator
       /\ IsList(value)
       /\ \E j \in 1..Len(value.items) :
              WhereSecurityViolation(p, value.items[j], depth + 1)
    \/ /\ operator \in {opIn, opNin}
       /\ IsList(value)
       /\ Len(value.items) > p.max_array_size

WhereSecurityViolation(p, w, depth) ==
    \/ depth > p.max_depth
    \/ /\ IsDict(w)
       /\ \E i \in 1..Len(w.items) :
              LET key == w.items[i].k
                  value == w.items[i].v
              IN  IF startswith(key, "$")
                  THEN OperatorSecurityViolation(p, key, value, depth)
                  ELSE \/ _validate_field_access(p, key).kind = "SecurityError"
                       \/ /\ IsDict(value)
                          /\ \E j \in 1..Len(value.items) :
                                 OperatorSecurityViolation(p, value.items[j].k,
                                     value.items[j].v, depth)

OrderSecurityViolation(p, order) ==
    /\ IsStr(order)
    /\ \E spec \in {strip(s) : s \in {split(order.s, ",")[i] :
                                        i \in 1..Len(split(order.s, ","))}} :
           /\ Len(spec) > 0
           /\ _validate_field_access(p, lstrip(spec, "-")).kind = "SecurityError"

FieldsSecurityViolation(p, fields) ==
    /\ IsDict(fields)
    /\ \E k \in Keys(fields) : _validate_field_access(p, k).kind = "SecurityError"

HasSecurityViolation(p, fi) ==
    \/ fi.where # None /\ WhereSecurityViolation(p, fi.where, 0)
    \/ fi.order # None /\ OrderSecurityViolation(p, fi.order)
    \/ fi.fields # None /\ FieldsSecurityViolation(p, fi.fields)

\* C4: SecurityError has priority over ValidationError within one call of
\* validate_filter_input: a filter that contains a security violation, in
\* whatever clause and key order and whatever else is wrong with it, is
\* refused with SecurityError; ValidationError is raised only for filters
\* that contain no security violation.
C4_SecurityPriority ==
    /\ (Len(calls) >= 3
        /\ HasSecurityViolation(security_policy, normalized_input))
           => ValidatorRaised("SecurityError")
    /\ ValidatorRaised("ValidationError")
           => ~HasSecurityViolation(security_policy, normalized_input)


Max(S) == CHOOSE m \in S : \A n \in S : n <= m

\* the elements of the logical operators' arrays in the mapping w
LogicalChildren(w) ==
    UNION {{w.items[i].v.items[j] : j \in 1..Len(w.items[i].v.items)} :
               i \in {i \in 1..Len(w.items) :
                          /\ w.items[i].k \in LogicalOperator
                          /\ IsList(w.items[i].v)}}

\* the largest number of logical operators a condition mapping of w is nested
\* under (a field's operator mapping is not a level)
RECURSIVE LogicalDepth(_)
LogicalDepth(w) ==
    IF ~IsDict(w) THEN 0
    ELSE Max({0} \cup {1 + LogicalDepth(c) : c \in LogicalChildren(w)})

DepthError == SecurityError("Query depth exceeds maximum", <<>>)

\* the policy p with a depth limit no generated filter reaches
WithoutDepthLimit(p) == [p EXCEPT !.max_depth = MaxNest + 2]

\* C5: the where walk starts at depth 0 and adds 1 per logical operator level
\* only; a filter with no other violation is refused with the depth
\* SecurityError exactly when a condition mapping lies under more than
\* max_depth logical operators (exactly max_depth is accepted); on a mapping
\* beyond the limit the depth error is raised whatever the mapping holds.
C5_DepthEnforcement ==
    /\ (/\ Len(calls) >= 3
        /\ normalized_input.where # None
        /\ validate_filter_input(WithoutDepthLimit(security_policy),
                                 normalized_input) = NoError)
           => IF LogicalDepth(normalized_input.where) > security_policy.max_depth
              THEN /\ ValidatorRaised("SecurityError")
                   /\ raised.parts = <<DepthError>>
              ELSE ValidatorAccepted
    /\ Len(calls) >= 3 =>
           \A w \in {normalized_input.where, PyInt(1), PyDict(<<>>),
                     Dict1(opAnd, PyList(<<>>)), Dict1(fX, PyInt(1))} :
               /\ _validate_where_clause(security_policy, w,
                       security_policy.max_depth + 1) = DepthError
               /\ LogicalDepth(w) = 0 =>
                      _validate_where_clause(security_policy, w,
                          security_policy.max_depth) # DepthError

\* a filter whose only fault is one logical level too many was refused
C5_Witness ==
    /\ ValidatorRaised("SecurityError")
    /\ raised.parts = <<DepthError>>
    /\ security_policy.max_depth >= 1
    /\ LogicalDepth(normalized_input.where) = security_policy.max_depth + 1
    /\ validate_filter_input(WithoutDepthLimit(security_policy),
                             normalized_input) = NoError

\* a filter nested exactly max_depth levels deep was accepted
C5_WitnessAtLimit ==
    /\ ValidatorAccepted
    /\ security_policy.max_depth >= 1
    /\ LogicalDepth(normalized_input.where) = security_policy.max_depth


\* the '$' tokens used in the where mapping w: keys of a condition mapping
\* and keys of a field's operator mapping, at every logical level
RECURSIVE WhereOperators(_)
WhereOperators(w) ==
    IF ~IsDict(w) THEN {}
    ELSE UNION {LET key == w.items[i].k
                    value == w.items[i].v
                IN  IF startswith(key, "$")
                    THEN {key} \cup
                         (IF key \in LogicalOperator /\ IsList(value)
                          THEN UNION {WhereOperators(value.items[j]) :
                                          j \in 1..Len(value.items)}
                          ELSE {})
                    ELSE IF IsDict(value) THEN Keys(value) ELSE {} :
                i \in 1..Len(w.items)}

WithoutOperatorLimit(p) == [p EXCEPT !.allowed_operators = None]

OperatorError(operator) == SecurityError("Operator is not allowed", operator)

\* C6: with allowed_operators set, a comparison operator outside the set is
\* refused with SecurityError wherever it occurs in the where clause; the
\* logical operators and tokens that are no ComparisonOperator member are
\* never refused by this policy; with allowed_operators None nothing is.
C6_AllowedOperators ==
    /\ pc = "validate" =>
       \A operator \in ComparisonOperator \cup LogicalOperator \cup {opFoo} :
       \A value \in {PyInt(1), PyBool(TRUE), PyList(<<Dict1(fA, PyInt(1))>>)} :
           LET limited == /\ security_policy.allowed_operators # None
                          /\ operator \in ComparisonOperator
                          /\ ~Contains(security_policy.allowed_operators, operator)
           IN  _validate_operator(security_policy, operator, value, 0) =
                   IF limited THEN OperatorError(operator)
                   ELSE _validate_operator(WithoutOperatorLimit(security_policy),
                                           operator, value, 0)
    /\ (/\ Len(calls) >= 3
        /\ normalized_input.where # None
        /\ validate_filter_input(WithoutOperatorLimit(security_policy),
                                 normalized_input) = NoError)
           => IF /\ security_policy.allowed_operators # None
                 /\ \E operator \in WhereOperators(normalized_input.where) :
                        /\ operator \in ComparisonOperator
                        /\ ~Contains(security_policy.allowed_operators, operator)
              THEN /\ ValidatorRaised("SecurityError")
                   /\ Len(raised.parts) = 1
                   /\ raised.parts[1].m = "Operator is not allowed"
                   /\ raised.parts[1].arg \in ComparisonOperator
              ELSE ValidatorAccepted

\* a comparison operator outside allowed_operators, under a logical operator
\* that is itself not in the set, was refused
C6_Witness ==
    /\ ValidatorRaised("SecurityError")
    /\ security_policy.allowed_operators # None
    /\ raised.parts = <<OperatorError(opIn)>>
    /\ WhereOperators(normalized_input.where) \cap LogicalOperator # {}
    /\ validate_filter_input(WithoutOperatorLimit(security_policy),
                             normalized_input) = NoError

\* a token that is no ComparisonOperator member passed a set allowed_operators
C6_WitnessUnknown ==
    /\ ValidatorAccepted
    /\ security_policy.allowed_operators # None
    /\ opFoo \in WhereOperators(normalized_input.where)


EmptyArrayError(operator) == ValidationError("cannot have empty array", operator)

EmptyConditionError == ParseError("Empty condition", <<>>)

\* C7: a logical operator with an empty array is refused by the validator
\* with ValidationError 'cannot have empty array' and the builder is never
\* called; a bare empty where mapping passes the validator and is refused by
\* the builder with ParseError 'Empty condition'; neither error comes from
\* the other stage.
C7_EmptyFailures ==
    /\ \A operator \in LogicalOperator :
           (Len(calls) >= 3
            /\ normalized_input.where = Dict1(operator, PyList(<<>>)))
           => /\ ValidatorRaised("ValidationError")
              /\ raised.parts = <<EmptyArrayError(operator)>>
    /\ (Len(calls) >= 3 /\ normalized_input.where = PyDict(<<>>))
           => /\ ValidatorAccepted
              /\ Len(calls) >= 4 =>
                     /\ Len(calls) = 4
                     /\ pc = "raised"
                     /\ raised = EmptyConditionError
    /\ (pc = "raised" /\ raised = EmptyConditionError)
           => calls[Len(calls)].stage = "build"
    /\ (pc = "raised" /\ "parts" \in DOMAIN raised
        /\ \E i \in 1..Len(raised.parts) :
               raised.parts[i].m = "cannot have empty array")
           => /\ calls[Len(calls)].stage = "validate"
              /\ raised.kind = "ValidationError"

\* the builder refused the empty where mapping that the validator accepted
C7_Witness ==
    /\ Len(calls) = 4
    /\ pc = "raised"
    /\ raised = EmptyConditionError
    /\ normalized_input.where = PyDict(<<>>)

\* the validator refused the empty array; the builder never ran
C7_WitnessEmptyArray ==
    /\ ValidatorRaised("ValidationError")
    /\ raised.parts = <<EmptyArrayError(opAnd)>>
    /\ normalized_input.where = Dict1(opAnd, PyList(<<>>))


\* every operator of the tree under node is a canonical token
RECURSIVE CanonicalOperators(_)
CanonicalOperators(node) ==
    IF node = None THEN TRUE
    ELSE IF IsFieldCondition(node) THEN node.operator \in ComparisonOperator
    ELSE /\ IsLogicalCondition(node)
         /\ node.operator \in LogicalOperator
         /\ \A i \in 1..Len(node.conditions) :
                CanonicalOperators(node.conditions[i])

\* the '$' tokens of the normalized where clause that are no canonical operator
UnknownTokens(fi) ==
    WhereOperators(fi.where) \ (ComparisonOperator \cup LogicalOperator)

\* C8: every FilterAST of the pipeline, built or optimized, holds only
\* canonical operators (ComparisonOperator members in FieldConditions,
\* LogicalOperator members in LogicalConditions); a filter using any other
\* '$' token, in field-operator or in logical-operator position, yields no
\* AST: once past the validator it ends in ParseError at the build stage.
C8_CanonicalOperators ==
    /\ ast # Unset => CanonicalOperators(ast.where)
    /\ optimized_ast # Unset => CanonicalOperators(optimized_ast.where)
    /\ (Len(calls) >= 3 /\ UnknownTokens(normalized_input) # {})
           => /\ ast = Unset
              /\ optimized_ast = Unset
              /\ Len(calls) >= 4 =>
                     /\ Len(calls) = 4
                     /\ pc = "raised"
                     /\ raised.kind = "ParseError"

\* the builder refused an unknown token in field-operator position that the
\* normalizer and the validator had let through
C8_Witness ==
    /\ Len(calls) = 4
    /\ pc = "raised"
    /\ raised = ParseError("Unknown operator", opFoo)
    /\ opFoo \in UnknownTokens(normalized_input)

\* the same for an unknown token in logical-operator position
C8_WitnessLogicalPosition ==
    /\ Len(calls) = 4
    /\ pc = "raised"
    /\ raised.kind = "ParseError"
    /\ opFoo \in Keys(normalized_input.where)

\* an AST with a logical and a comparison operator was built and optimized
C8_WitnessBuilt ==
    /\ pc = "done"
    /\ IsLogicalCondition(optimized_ast.where)
    /\ CanonicalOperators(optimized_ast.where)


\* the number of single-child LogicalCondition wrappers on top of node
RECURSIVE ChainLength(_)
ChainLength(node) ==
    IF node # None /\ IsLogicalCondition(node) /\ Len(node.conditions) = 1
    THEN 1 + ChainLength(node.conditions[1])
    ELSE 0

\* the node under the single-child wrappers
RECURSIVE ChainLeaf(_)
ChainLeaf(node) ==
    IF node # None /\ IsLogicalCondition(node) /\ Len(node.conditions) = 1
    THEN ChainLeaf(node.conditions[1])
    ELSE node

\* C9: with the default OptimizerConfig, a where tree of n >= 1 nested
\* single-child LogicalCondition wrappers around one FieldCondition is
\* optimized to exactly that FieldCondition, for n beyond
\* max_optimization_passes as well.
C9_Flattening ==
    (/\ pc = "done"
     /\ config.optimizer = DefaultConfig.optimizer
     /\ ast.where # None
     /\ ChainLength(ast.where) >= 1
     /\ IsFieldCondition(ChainLeaf(ast.where)))
    => optimized_ast.where = ChainLeaf(ast.where)

\* a chain of more wrappers than there are optimization passes was flattened
C9_Witness ==
    /\ pc = "done"
    /\ ast.where # None
    /\ ChainLength(ast.where) > config.optimizer.max_optimization_passes
    /\ IsFieldCondition(ChainLeaf(ast.where))
    /\ optimized_ast.where = ChainLeaf(ast.where)


\* C10: optimize(optimize(ast)) = optimize(ast) for every FilterAST: one call
\* of optimize, bounded by max_optimization_passes, returns a tree that no
\* rewrite rule (empty removal, single-child flattening, same-operator
\* splicing, sibling deduplication) changes any further.
C10_OptimizerFixedPoint ==
    pc = "done" =>
        /\ optimize(config.optimizer, optimized_ast) = optimized_ast
        /\ optimized_ast.where # None =>
               _optimize_node(config.optimizer, optimized_ast.where) =
                   optimized_ast.where


\* n1 and n2 are the same tree up to the order of the children of their
\* logical conditions
RECURSIVE SameTree(_, _)
SameTree(n1, n2) ==
    IF n1 = None \/ n2 = None THEN n1 = n2
    ELSE IF IsFieldCondition(n1) \/ IsFieldCondition(n2) THEN n1 = n2
    ELSE /\ n1.operator = n2.operator
         /\ Len(n1.conditions) = Len(n2.conditions)
         /\ \A i \in 1..Len(n1.conditions) :
                Cardinality({j \in 1..Len(n1.conditions) :
                                SameTree(n1.conditions[i], n1.conditions[j])}) =
                Cardinality({j \in 1..Len(n2.conditions) :
                                SameTree(n1.conditions[i], n2.conditions[j])})

\* no logical condition of the tree has two children that are the same tree
RECURSIVE NoEqualSiblings(_)
NoEqualSiblings(node) ==
    IF node = None \/ IsFieldCondition(node) THEN TRUE
    ELSE /\ \A i, j \in 1..Len(node.conditions) :
                i # j => ~SameTree(node.conditions[i], node.conditions[j])
         /\ \A i \in 1..Len(node.conditions) :
                NoEqualSiblings(node.conditions[i])

\* the logical condition node with its children in reverse order
Reversed(node) ==
    LogicalCondition(node.operator,
        [i \in 1..Len(node.conditions) |->
            node.conditions[Len(node.conditions) + 1 - i]])

C11_WitnessDuplicate ==
    /\ pc = "done"
    /\ ast.where # None
    /\ IsLogicalCondition(ast.where)
    /\ Len(ast.where.conditions) = 2
    /\ ast.where.conditions[1] = ast.where.conditions[2]
    /\ optimized_ast.where = ast.where.conditions[1]

\* two logical siblings with the same children in another order were reduced
\* to one
C11_WitnessLogicalSiblings ==
    /\ pc = "done"
    /\ ast.where # None
    /\ IsLogicalCondition(ast.where)
    /\ Len(ast.where.conditions) = 2
    /\ IsLogicalCondition(ast.where.conditions[1])
    /\ ast.where.conditions[1] # ast.where.conditions[2]
    /\ SameTree(ast.where.conditions[1], ast.where.conditions[2])
    /\ optimized_ast.where = ast.where.conditions[1]

(***************************************************************************)
(* C12: what optimize returns                                              *)
(***************************************************************************)
EmptyAST == FilterAST(None, <<>>, None)

\* C12: with the optimizer disabled optimize returns the very object it was
\* given, untouched; with the optimizer enabled it returns an object other
\* than its argument, also for an empty FilterAST, whose result has where
\* None, an empty order and fields None; fields is passed through unchanged.
C12_OptimizeReturn ==
    pc = "done" =>
        /\ optimized_ast.fields = ast.fields
        /\ IF ~config.optimizer.enabled
           THEN optimized_ast_id = ast_id /\ optimized_ast = ast
           ELSE /\ optimized_ast_id # ast_id
                /\ optimized_ast_id # NoObject
                /\ ast = EmptyAST => optimized_ast = EmptyAST

\* a disabled optimizer handed back a tree that the enabled one would rewrite
C12_Witness ==
    /\ pc = "done"
    /\ ~config.optimizer.enabled
    /\ optimized_ast_id = ast_id
    /\ ast.fields # None
    /\ optimize(DefaultConfig.optimizer, ast) # ast

\* an enabled optimizer returned a new object for the empty FilterAST
C12_WitnessEmpty ==
    /\ pc = "done"
    /\ config.optimizer.enabled
    /\ ast = EmptyAST
    /\ optimized_ast = EmptyAST
    /\ optimized_ast_id # ast_id

(***************************************************************************)
(* C13: normalization is idempotent                                        *)
(***************************************************************************)
\* the operator keys of the field conditions of a normalized where clause
RECURSIVE FieldOperatorKeys(_)
FieldOperatorKeys(where) ==
    IF ~IsDict(where) THEN {}
    ELSE UNION {LET e == where.items[i]
                IN  IF IsList(e.v)
                    THEN UNION {FieldOperatorKeys(e.v.items[j]) :
                                    j \in 1..Len(e.v.items)}
                    ELSE IF IsDict(e.v) /\ ~startswith(e.k, "$")
                    THEN {e.v.items[j].k : j \in 1..Len(e.v.items)}
                    ELSE {} : i \in 1..Len(where.items)}

\* C13: normalize(normalize(x)) = normalize(x) for every FilterInput x that
\* normalizes without an error: expanded {field: {$eq: v}} conditions,
\* canonical $lowercase operators, the comma-joined order string and 0/1
\* fields values are fixed points of normalize.
C13_NormalizeIdempotent ==
    pc = "validate" =>
        /\ normalize(normalized_input) = normalized_input
        /\ normalized_input.where # None =>
               _normalize_where(normalized_input.where) = normalized_input.where
        /\ normalized_input.order # None =>
               _normalize_order(normalized_input.order) = normalized_input.order
        /\ normalized_input.fields # None =>
               _normalize_fields(normalized_input.fields)
                   = normalized_input.fields

\* an equality shorthand was expanded and a list of order specs joined
C13_Witness ==
    /\ pc = "validate"
    /\ IsDict(parsed_input.where)
    /\ normalized_input.where # parsed_input.where
    /\ opEq \in FieldOperatorKeys(normalized_input.where)
    /\ IsList(parsed_input.order)
    /\ IsStr(normalized_input.order)
    /\ Len(normalized_input.order.s) > 0

\* an operator alias was made canonical
C13_WitnessAlias ==
    /\ pc = "validate"
    /\ IsDict(parsed_input.where)
    /\ <<"G", "T">> \in FieldOperatorKeys(parsed_input.where)
    /\ FieldOperatorKeys(normalized_input.where) = {opGt}

\* a condition that was already expanded went through normalize unchanged
C13_WitnessFixedPoint ==
    /\ pc = "validate"
    /\ IsDict(parsed_input.where)
    /\ opEq \in FieldOperatorKeys(parsed_input.where)
    /\ normalized_input.where = parsed_input.where

(***************************************************************************)
(* C14: the order forms are equivalent                                     *)
(***************************************************************************)
\* the mapping form of a sequence of specs: keys str(first), str(first + 1),
\* ..., inserted first to last or last to first
IndexMapping(specs, first, backwards) ==
    PyDict([i \in 1..Len(specs) |->
               LET j == IF backwards THEN Len(specs) + 1 - i ELSE i
               IN  Entry(IntToStr(first + j - 1), PyStr(specs[j]))])

\* the other forms of a sequence of order specs
OrderForms(specs) ==
    {PyList([i \in 1..Len(specs) |-> PyStr(specs[i])]),
     PyStr(join(specs, <<",">>)),
     IndexMapping(specs, 0, FALSE),
     IndexMapping(specs, 0, TRUE),
     IndexMapping(specs, 9, TRUE)}

\* C14: a sequence of order specs, the comma-joined string of the same specs
\* and a mapping keyed by stringified integers (taken in numeric key order)
\* normalize to the same canonical string and build the same OrderNode
\* sequence; "-f" and "f DESC" both build OrderNode(f, ascending = False).
C14_OrderFormsEquivalent ==
    (pc = "done" /\ parsed_input.order # None) =>
        /\ IsList(parsed_input.order) =>
               LET specs == [i \in 1..Len(parsed_input.order.items) |->
                                parsed_input.order.items[i].s]
               IN  \A form \in OrderForms(specs) :
                       /\ _normalize_order(form) = normalized_input.order
                       /\ _build_order(_normalize_order(form)) = ast.order
        /\ \A f \in OrderFields :
               parsed_input.order \in {PyStr(<<"-">> \o f),
                                       PyStr(f \o <<" ">> \o kwDESC)}
               => /\ ast.order = <<OrderNode(f, FALSE)>>
                  /\ _build_order(_normalize_order(PyStr(<<"-">> \o f)))
                         = ast.order
                  /\ _build_order(_normalize_order(
                         PyStr(f \o <<" ">> \o kwDESC))) = ast.order

\* a list of two specs was normalized and built into two OrderNodes of
\* different directions
C14_Witness ==
    /\ pc = "done"
    /\ IsList(parsed_input.order)
    /\ Len(ast.order) = 2
    /\ ast.order[1].ascending
    /\ ~ast.order[2].ascending
    /\ ast.order[1].field # ast.order[2].field

\* a mapping whose keys were inserted out of numeric order was built in
\* numeric key order
C14_WitnessMapping ==
    /\ pc = "done"
    /\ IsDict(parsed_input.order)
    /\ Len(parsed_input.order.items) = 2
    /\ parsed_input.order.items[1].k = <<"1">>
    /\ ast.order = <<OrderNode(fA, TRUE), OrderNode(fX, FALSE)>>

\* "-f" was built into a descending OrderNode
C14_WitnessDescending ==
    /\ pc = "done"
    /\ parsed_input.order = PyStr(<<"-">> \o fA)
    /\ ast.order = <<OrderNode(fA, FALSE)>>

(***************************************************************************)
(* C15, C16: registration and lookup failures                              *)
(***************************************************************************)
RegistryUnchanged == RegistrySnapshot = last_call.before

RaisedRegistryError ==
    last_call.op # "none" /\ last_call.raised.kind = "RegistryError"

\* C15: register_operator raises RegistryError for every name that does not
\* start with '$' and leaves the registry as it was; every name in the
\* registry starts with '$'.
C15_OperatorNamePrefix ==
    /\ \A i \in 1..Len(_operators) : startswith(_operators[i].k, "$")
    /\ (last_call.op = "register_operator" /\ ~startswith(last_call.name, "$"))
       => RaisedRegistryError /\ RegistryUnchanged

\* a name without '$' was refused by a registry that holds operators
C15_Witness ==
    /\ last_call.op = "register_operator"
    /\ ~startswith(last_call.name, "$")
    /\ RaisedRegistryError
    /\ Len(_operators) = 2

\* the last call registered a name (operator or backend) that was registered
DuplicateRegistration ==
    \/ /\ last_call.op = "register_operator"
       /\ HasKey(last_call.before.operators, last_call.name)
    \/ /\ last_call.op = "register_compiler"
       /\ issubclass_QueryCompiler(last_call.compiler_class)
       /\ HasKey(last_call.before.compilers, last_call.backend_name)

\* the last call looked up a name that is not registered
MissingLookup ==
    \/ /\ last_call.op = "get_operator"
       /\ ~HasKey(last_call.before.operators, last_call.name)
    \/ /\ last_call.op = "get_compiler"
       /\ ~HasKey(last_call.before.compilers, last_call.backend_name)

\* C16, as stated: registering an operator name or a backend name that is
\* already registered raises RegistryError and leaves the existing entry in
\* place; looking up a name that is not registered raises RegistryError.
C16_DuplicateRefused ==
    /\ DuplicateRegistration => RaisedRegistryError /\ RegistryUnchanged
    /\ MissingLookup => RaisedRegistryError /\ RegistryUnchanged

\* C16, amended: registering a name that is already registered returns
\* without an error and replaces the entry in its place in the dict (for a
\* backend, the cached instance of the replaced class is dropped); looking
\* up a name that is not registered raises RegistryError and changes nothing.
C16_DuplicateReplaces ==
    /\ (last_call.op = "register_operator"
        /\ HasKey(last_call.before.operators, last_call.name))
       => /\ ~IsError(last_call.raised)
          /\ Item(_operators, last_call.name)
                = OperatorInfo(last_call.implementation, last_call.backends)
          /\ Len(_operators) = Len(last_call.before.operators)
          /\ \A i \in 1..Len(_operators) :
                 /\ _operators[i].k = last_call.before.operators[i].k
                 /\ _operators[i].k # last_call.name
                    => _operators[i] = last_call.before.operators[i]
    /\ (last_call.op = "register_compiler"
        /\ issubclass_QueryCompiler(last_call.compiler_class)
        /\ HasKey(last_call.before.compilers, last_call.backend_name))
       => /\ ~IsError(last_call.raised)
          /\ Item(_compilers, last_call.backend_name) = last_call.compiler_class
          /\ ~HasKey(_instances, last_call.backend_name)
          /\ Len(_compilers) = Len(last_call.before.compilers)
          /\ \A i \in 1..Len(_compilers) :
                 /\ _compilers[i].k = last_call.before.compilers[i].k
                 /\ _compilers[i].k # last_call.backend_name
                    => _compilers[i] = last_call.before.compilers[i]
    /\ MissingLookup => RaisedRegistryError /\ RegistryUnchanged

\* a backend with a cached instance was registered again with another class
C16_Witness ==
    /\ last_call.op = "register_compiler"
    /\ HasKey(last_call.before.compilers, last_call.backend_name)
    /\ HasKey(last_call.before.instances, last_call.backend_name)
    /\ Item(last_call.before.compilers, last_call.backend_name)
           # last_call.compiler_class
    /\ Item(_compilers, last_call.backend_name) = last_call.compiler_class

\* an operator name was registered again with another implementation
C16_WitnessOperator ==
    /\ last_call.op = "register_operator"
    /\ HasKey(last_call.before.operators, last_call.name)
    /\ Item(last_call.before.operators, last_call.name).implementation
           # last_call.implementation
    /\ Item(_operators, last_call.name).implementation
           = last_call.implementation

\* an operator that is not registered was looked up
C16_WitnessMissing ==
    /\ last_call.op = "get_operator"
    /\ ~HasKey(_operators, last_call.name)
    /\ Len(_operators) > 0
    /\ RaisedRegistryError

(***************************************************************************)
(* C17: readers concurrent with a registration                             *)
(***************************************************************************)
Quiescent == \A t \in ThreadIds : threads[t].pc = "idle"

FinishedCalls(op) ==
    {t \in ThreadIds : threads[t].pc = "idle" /\ threads[t].call.op = op}

\* the result of get_operator on a registry that holds the entry of one
\* registration as a whole
WholeEntryResults(name, backend) ==
    {get_operator(<<>>, name, backend)} \cup
    {get_operator(<<Entry(name, OperatorInfo(r[1], r[2]))>>, name, backend) :
         r \in OperatorRegistrations}

\* C17: a get_compiler that runs while register_compiler replaces the class
\* of its backend gets a complete entry (an instance, or RegistryError when
\* the backend is not registered yet), and once every call has finished a
\* later get_compiler returns an instance of the class now registered: no
\* cached instance of a replaced class survives.  A get_operator concurrent
\* with register_operator sees the whole old entry or the whole new one.
C17_ConcurrentReaders ==
    /\ \A t \in FinishedCalls("get_compiler") :
           \/ threads[t].result.raised.kind = "RegistryError"
           \/ /\ ~IsError(threads[t].result.raised)
              /\ threads[t].result.value.class \in CompilerClasses
    /\ (Quiescent /\ HasKey(_compilers, SharedBackend))
       => LET r == get_compiler(_compilers, _instances, SharedBackend,
                                NewObject(LiveThreadInstances))
          IN  /\ ~IsError(r.raised)
              /\ r.value.class = Item(_compilers, SharedBackend)
    /\ \A t \in FinishedCalls("get_operator") :
           threads[t].result
               \in WholeEntryResults(threads[t].call.name,
                                     threads[t].call.backend)

(***************************************************************************)
(* C18: exceptions at the request boundary                                 *)
(***************************************************************************)
\* C18: a QEngineError of any subtype becomes a 400 response that carries
\* its message; any other exception becomes a 500 response with the
\* exception text when debug is on, and with debug off the one fixed 400
\* response, whatever the exception was, so that its text does not reach
\* the client.
C18_ErrorMapping ==
    (pc = "responded" /\ IsError(raised)) =>
        IF IsQEngineError(raised)
        THEN /\ response.status_code = 400
             /\ response.detail = [message |-> StrOf(raised)]
        ELSE IF config.debug
        THEN /\ response.status_code = 500
             /\ response.detail.message = StrOf(raised)
        ELSE response = HTTPException(400, GenericDetail)

\* an unexpected exception was answered in production mode
C18_Witness ==
    /\ pc = "responded"
    /\ ~config.debug
    /\ raised \in UnexpectedExceptions
    /\ raised.m = "Should not be visible"
    /\ response.status_code = 400

\* a SecurityError was answered with its message
C18_WitnessQEngineError ==
    /\ pc = "responded"
    /\ raised.kind = "SecurityError"
    /\ response.status_code = 400
    /\ response.detail = [message |-> StrOf(raised)]

\* an unexpected exception was answered in debug mode
C18_WitnessDebug ==
    /\ pc = "responded"
    /\ config.debug
    /\ raised \in UnexpectedExceptions
    /\ response.status_code = 500

(***************************************************************************)
(* C19: compile only reads the FilterAST                                   *)
(***************************************************************************)
CompileCalls == {i \in 1..Len(calls) : calls[i].stage = "compile"}

\* C19: compile leaves the where tree, the order and the fields of the
\* FilterAST as they were before the call, for every call made on the
\* cached compiler instance, and compiling the empty FilterAST returns an
\* empty result.
C19_CompileReadsOnly ==
    compile_calls > 0 =>
        /\ optimized_ast = optimize(config.optimizer, ast)
        /\ \A i \in CompileCalls : calls[i].arg = optimized_ast
        /\ (pc = "compiled" /\ optimized_ast = EmptyAST)
           => compiled = EmptyResult

\* an AST with where, order and fields was compiled twice by the same
\* compiler instance
C19_Witness ==
    /\ pc = "compiled"
    /\ compile_calls = 2
    /\ Len(_instances) = 1
    /\ optimized_ast.where # None
    /\ Len(optimized_ast.order) = 2
    /\ optimized_ast.fields # None
    /\ compiled.filter # Absent
    /\ compiled.sort # Absent
    /\ compiled.projection = PyDict(optimized_ast.fields.fields)

\* the empty FilterAST was compiled to the empty result
C19_WitnessEmpty ==
    /\ pc = "compiled"
    /\ optimized_ast = EmptyAST
    /\ compiled = EmptyResult

(***************************************************************************)
(* C20: validate_ast_node reports instead of raising                       *)
(***************************************************************************)
\* the nodes validate_ast_node visits: the argument and what is reached
\* from it through the conditions of LogicalCondition nodes
RECURSIVE Visited(_, _)
Visited(node, path) ==
    {[path |-> path, node |-> node]} \cup
    IF NodeType(node) = "LogicalCondition"
    THEN UNION {Visited(node.conditions[i], Append(path, i)) :
                    i \in 1..Len(node.conditions)}
    ELSE {}

\* a field name the policy refuses: blocked, or outside a defined whitelist
\* (an empty whitelist counts as no whitelist)
RefusedField(p, field_name) ==
    \/ Contains(p.blocked_fields, field_name)
    \/ Truthy(p.allowed_fields) /\ ~Contains(p.allowed_fields, field_name)

\* the places of the subtree that violate the policy or the node structure:
\* a visited node with the index of the FieldsNode key (0: the node itself)
Violations(p, node) ==
    LET visited == Visited(node, <<>>)
    IN  {<<v.path, 0>> : v \in {v \in visited :
             \/ /\ NodeType(v.node) \in {"FieldCondition", "OrderNode"}
                /\ RefusedField(p, v.node.field)
             \/ /\ NodeType(v.node) = "LogicalCondition"
                /\ Len(v.node.conditions) = 0}}
        \cup
        UNION {{<<v.path, i>> : i \in {i \in 1..Len(v.node.fields) :
                                          RefusedField(p, v.node.fields[i].k)}} :
                   v \in {v \in visited : NodeType(v.node) = "FieldsNode"}}

\* the messages of the built-in checks about a refused field or an empty
\* LogicalCondition
ViolationMessages(errors) ==
    {i \in 1..Len(errors) :
         errors[i].m \in {"Access to field is blocked",
                          "Access to field is not allowed",
                          "Logical operator cannot have empty conditions"}}

\* C20: validate_ast_node returns a list of messages and raises neither
\* SecurityError nor ValidationError; the list has a message for every
\* violating node of the subtree (refused field of a FieldCondition, an
\* OrderNode or a FieldsNode key, LogicalCondition without conditions),
\* and every registered rule is applied exactly once to the node and to
\* each descendant reached through LogicalCondition children.
C20_ReportsNotRaises ==
    validation # NoCall =>
        LET p == security_policy
            visited == Visited(validation.node, <<>>)
        IN  /\ ~IsError(validation.raised)
            /\ Cardinality(ViolationMessages(validation.value))
                   = Cardinality(Violations(p, validation.node))
            /\ \A v \in visited :
                   /\ (/\ NodeType(v.node) \in {"FieldCondition", "OrderNode"}
                       /\ RefusedField(p, v.node.field))
                      => \E i \in ViolationMessages(validation.value) :
                             validation.value[i].arg = v.node.field
                   /\ (/\ NodeType(v.node) = "FieldsNode")
                      => \A k \in 1..Len(v.node.fields) :
                             RefusedField(p, v.node.fields[k].k)
                             => \E i \in ViolationMessages(validation.value) :
                                    validation.value[i].arg = v.node.fields[k].k
                   /\ \A r \in 1..Len(validation.rules) :
                          Cardinality({i \in 1..Len(validation.applied) :
                              validation.applied[i] =
                                  [rule |-> r, path |-> v.path]}) = 1
            /\ Len(validation.applied)
                   = Len(validation.rules) * Cardinality(visited)

\* a nested tree with a refused field two levels down and an empty
\* LogicalCondition was validated with two rules registered
C20_Witness ==
    /\ validation # NoCall
    /\ Len(validation.rules) = 2
    /\ NodeType(validation.node) = "LogicalCondition"
    /\ Cardinality(Visited(validation.node, <<>>)) = 6
    /\ Cardinality(Violations(security_policy, validation.node)) = 4
    /\ Len(validation.value) > 4

\* a FieldsNode with two refused keys gave two messages
C20_WitnessFields ==
    /\ validation # NoCall
    /\ NodeType(validation.node) = "FieldsNode"
    /\ Cardinality(Violations(security_policy, validation.node)) = 2
    /\ Len(validation.value) = 2

\* a blocked OrderNode field was reported
C20_WitnessOrder ==
    /\ validation # NoCall
    /\ NodeType(validation.node) = "OrderNode"
    /\ validation.value = <<[m |-> "Access to field is blocked",
                             arg |-> validation.node.field]>>

(***************************************************************************)
(* C21: the clauses are checked independently                              *)
(***************************************************************************)
\* what checking one clause of fi by itself raises (NoError: nothing)
ClauseAlone(p, fi, clause) ==
    IF clause = "where"
    THEN IF fi.where # None THEN _validate_where_clause(p, fi.where, 0)
         ELSE NoError
    ELSE IF clause = "order"
    THEN IF fi.order # None THEN _validate_order_clause(p, fi.order)
         ELSE NoError
    ELSE IF fi.fields # None THEN _validate_fields_clause(p, fi.fields)
         ELSE NoError

Clauses == {"where", "order", "fields"}

FailingClauses(p, fi, kind) ==
    {c \in Clauses : ClauseAlone(p, fi, c).kind = kind}

PartsOf(e) == {e.parts[i] : i \in 1..Len(e.parts)}

\* C21: validate_filter_input checks where, order and fields independently:
\* the error it raises carries the message of every clause that fails with
\* SecurityError, or, when no clause does, the message of every clause that
\* fails with ValidationError; a failing clause never hides a later one.
C21_ClausesIndependent ==
    (Len(calls) = 3 /\ pc \in {"raised", "build"}) =>
        LET p == security_policy
            fi == normalized_input
            security == FailingClauses(p, fi, "SecurityError")
            validation_ == FailingClauses(p, fi, "ValidationError")
        IN  IF security # {}
            THEN /\ ValidatorRaised("SecurityError")
                 /\ PartsOf(raised) = {ClauseAlone(p, fi, c) : c \in security}
                 /\ Len(raised.parts) = Cardinality(security)
            ELSE IF validation_ # {}
            THEN /\ ValidatorRaised("ValidationError")
                 /\ PartsOf(raised) = {ClauseAlone(p, fi, c) : c \in validation_}
                 /\ Len(raised.parts) = Cardinality(validation_)
            ELSE pc = "build"

\* where and order both violate the security policy and both are reported
C21_Witness ==
    /\ ValidatorRaised("SecurityError")
    /\ {"where", "order"} \subseteq
           FailingClauses(security_policy, normalized_input, "SecurityError")
    /\ Len(raised.parts) >= 2

\* two clauses fail with ValidationError and both are reported
C21_WitnessValidation ==
    /\ ValidatorRaised("ValidationError")
    /\ Len(raised.parts) >= 2

\* a clause failing with ValidationError comes before one failing with
\* SecurityError, which is still checked and wins
C21_WitnessLaterClause ==
    /\ ValidatorRaised("SecurityError")
    /\ ClauseAlone(security_policy, normalized_input, "where").kind
           = "ValidationError"
    /\ Len(raised.parts) = 1

(***************************************************************************)
(* C22: violations within one clause                                       *)
(***************************************************************************)
\* the field names the validator looks up while it checks one clause
ClauseFields(fi, clause) ==
    IF clause = "where" THEN WhereFieldKeys(fi.where)
    ELSE IF clause = "order"
    THEN IF IsStr(fi.order)
         THEN {lstrip(strip(split(fi.order.s, ",")[i]), "-") :
                   i \in 1..Len(split(fi.order.s, ","))} \ {<<>>}
         ELSE {}
    ELSE FieldsKeys(fi.fields)

RefusedFields(p, fi, clause) ==
    {f \in ClauseFields(fi, clause) :
         _validate_field_access(p, f).kind = "SecurityError"}

ReportedFields(e) == {part.arg : part \in PartsOf(e)}

\* C22: within one clause all violations are aggregated: when the
\* validator raises SecurityError, every refused field of every clause
\* (two blocked fields of one where mapping, two blocked fields of one
\* order string) is reported in the error, not only the first one met.
C22_AggregatesWithinClause ==
    ValidatorRaised("SecurityError") =>
        \A c \in Clauses :
            RefusedFields(security_policy, normalized_input, c)
                \subseteq ReportedFields(raised)

(***************************************************************************)
(* C23: the three queries of the OperatorRegistry agree                    *)
(***************************************************************************)
Names(seq) == {seq[i] : i \in 1..Len(seq)}

\* C23: in every registry state and for every name and backend,
\* is_registered is true exactly when get_operator returns without
\* RegistryError and exactly when the name is in list_operators; an
\* operator registered without backends (None or an empty list) is there
\* for every backend, a restricted one only for the backends listed.
C23_QueriesAgree ==
    \A name \in OperatorNames, backend \in BackendNames \cup {NoBackend} :
        LET registered == is_registered(_operators, name, backend)
            returned == ~IsError(get_operator(_operators, name, backend).raised)
            listed == name \in Names(list_operators(_operators, backend))
        IN  /\ registered = returned
            /\ returned = listed
            /\ HasKey(_operators, name) =>
                   LET backends == Item(_operators, name).backends.items
                   IN  IF backends = <<>> \/ backend = NoBackend
                       THEN registered
                       ELSE registered = (backend \in Names(backends))
            /\ ~HasKey(_operators, name) => ~registered

\* an operator restricted to beanie was asked for with sqlalchemy
C23_Witness ==
    /\ last_call.op = "is_registered"
    /\ last_call.backend = "sqlalchemy"
    /\ HasKey(_operators, last_call.name)
    /\ Item(_operators, last_call.name).backends.items = <<"beanie">>
    /\ last_call.value = [b |-> FALSE]

\* a listing for one backend left a restricted operator out and kept an
\* unrestricted one
C23_WitnessList ==
    /\ last_call.op = "list_operators"
    /\ last_call.backend = "sqlalchemy"
    /\ Len(_operators) = 2
    /\ Len(last_call.value.names) = 1

(***************************************************************************)
(* C24: the shapes the ASTBuilder builds                                   *)
(***************************************************************************)
\* build has returned an AST for normalized_input
Built == ast # Unset

\* the where clause is one field with a mapping of k operators
OneFieldOperators(w) ==
    /\ IsDict(w)
    /\ Len(w.items) = 1
    /\ ~startswith(w.items[1].k, "$")
    /\ IsDict(w.items[1].v)

\* the where clause is one logical operator over a one-element sequence
OneElementLogical(w) ==
    /\ IsDict(w)
    /\ Len(w.items) = 1
    /\ w.items[1].k \in LogicalOperator
    /\ IsList(w.items[1].v)
    /\ Len(w.items[1].v.items) = 1

\* C24: a field with exactly one operator builds a single FieldCondition; a
\* field with k >= 2 operators builds LogicalCondition($and) with k
\* FieldConditions in the order of the mapping; a logical operator over a
\* one-element sequence builds a LogicalCondition with exactly one child,
\* which only the optimizer reduces to the child.
C24_BuilderShapes ==
    (Built /\ normalized_input.where # None) =>
        LET w == normalized_input.where
        IN  /\ OneFieldOperators(w) =>
                LET field == w.items[1].k
                    operators == w.items[1].v.items
                    condition(i) == FieldCondition(field, operators[i].k,
                                                   operators[i].v)
                IN  IF Len(operators) = 1 THEN ast.where = condition(1)
                    ELSE /\ IsLogicalCondition(ast.where)
                         /\ ast.where.operator = opAnd
                         /\ ast.where.conditions =
                                [i \in 1..Len(operators) |-> condition(i)]
            /\ OneElementLogical(w) =>
                /\ IsLogicalCondition(ast.where)
                /\ ast.where.operator = w.items[1].k
                /\ Len(ast.where.conditions) = 1
                /\ ast.where.conditions[1] = _build_condition(w.items[1].v.items[1])
                /\ (/\ pc = "done"
                    /\ config.optimizer = DefaultConfig.optimizer
                    /\ ast.where.operator = opAnd
                    /\ IsFieldCondition(ast.where.conditions[1]))
                   => optimized_ast.where = ast.where.conditions[1]

\* {"$and": [leaf]} was built as a wrapper and optimized to the leaf
C24_Witness ==
    /\ pc = "done"
    /\ OneElementLogical(normalized_input.where)
    /\ ast.where.operator = opAnd
    /\ Len(ast.where.conditions) = 1
    /\ IsFieldCondition(ast.where.conditions[1])
    /\ optimized_ast.where = ast.where.conditions[1]

\* a field with two operators was built as $and of two FieldConditions
C24_WitnessTwoOperators ==
    /\ Built
    /\ OneFieldOperators(normalized_input.where)
    /\ Len(normalized_input.where.items[1].v.items) = 2
    /\ IsLogicalCondition(ast.where)
    /\ Len(ast.where.conditions) = 2

\* a field with one operator was built as a FieldCondition
C24_WitnessOneOperator ==
    /\ Built
    /\ OneFieldOperators(normalized_input.where)
    /\ Len(normalized_input.where.items[1].v.items) = 1
    /\ IsFieldCondition(ast.where)
    /\ ast.where.operator = opGt

(***************************************************************************)
(* C25: where conditions accumulated by the adapter                        *)
(***************************************************************************)
\* C25: after add_where_condition was called with c1..cn (n >= 1) on a new
\* adapter, the built filter is c1 when n = 1 and {'$and': [c1, ..., cn]}
\* with n entries in call order when n >= 2, every call returned the
\* adapter itself, and no condition object the caller passed was modified.
C25_WhereAccumulation ==
    (pc = "built" /\ Len(calls) >= 1) =>
        LET n == Len(calls)
            c(i) == calls[i].arg.value
        IN  /\ Value(heap, compiled.filter) =
                   IF n = 1 THEN c(1)
                   ELSE Dict1(opAnd, PyList([i \in 1..n |-> c(i)]))
            /\ \A i \in 1..n :
                   /\ calls[i].arg.returned = calls[i].arg.self
                   /\ Value(heap, calls[i].arg.condition) = c(i)

(***************************************************************************)
(* C26: concurrent compile calls on the cached compiler                    *)
(***************************************************************************)
\* what compile(a) returns when no other call runs
CompiledAlone(a) == compile([ast |-> a, adapter |-> None], NoError).result

\* C26: when two compile(ast) calls on the same BeanieQueryCompiler
\* instance are interleaved at any statement boundary, each call returns
\* exactly the result it returns when it runs alone.
C26_CompileIsolated ==
    \A t \in CompileThreads :
        (threads[t].call.op = "compile" /\ InCall(t, "idle")) =>
            /\ ~IsError(threads[t].result.raised)
            /\ threads[t].result.value = CompiledAlone(threads[t].call.ast)

(***************************************************************************)
(* C27: the instance cache of the CompilerRegistry, used sequentially      *)
(***************************************************************************)
\* C27: after any sequence of register_compiler, get_compiler and
\* unregister_compiler calls every backend with a cached instance is
\* registered and the instance is of the class registered now; get_compiler
\* returns the cached instance while the backend is neither registered
\* again nor unregistered; get_compiler of an unregistered backend raises
\* RegistryError and changes nothing; unregistering an unknown backend
\* changes nothing.
C27_CacheInvariant ==
    /\ \A i \in 1..Len(_instances) :
           /\ HasKey(_compilers, _instances[i].k)
           /\ _instances[i].v.class = Item(_compilers, _instances[i].k)
    /\ (last_call.op = "get_compiler" /\ ~IsError(last_call.raised))
       => /\ Item(_instances, last_call.backend_name) = last_call.value
          /\ HasKey(last_call.before.instances, last_call.backend_name)
             => last_call.value
                    = Item(last_call.before.instances, last_call.backend_name)
    /\ last_call.op \in {"register_compiler", "unregister_compiler",
                         "get_compiler"}
       => \A i \in 1..Len(last_call.before.instances) :
              LET cached == last_call.before.instances[i]
              IN  (cached.k # last_call.backend_name
                   \/ last_call.op = "get_compiler")
                  => /\ HasKey(_instances, cached.k)
                     /\ Item(_instances, cached.k) = cached.v
    /\ (last_call.op = "get_compiler"
        /\ ~HasKey(last_call.before.compilers, last_call.backend_name))
       => RaisedRegistryError /\ RegistryUnchanged
    /\ (last_call.op = "unregister_compiler"
        /\ ~HasKey(last_call.before.compilers, last_call.backend_name))
       => ~IsError(last_call.raised) /\ RegistryUnchanged

\* a second get_compiler returned the instance the first one cached, with
\* another backend cached as well
C27_Witness ==
    /\ last_call.op = "get_compiler"
    /\ HasKey(last_call.before.instances, last_call.backend_name)
    /\ last_call.value
           = Item(last_call.before.instances, last_call.backend_name)
    /\ Len(_instances) = 2

\* a backend with a cached instance was registered with another class and
\* lost the instance
C27_WitnessReplaced ==
    /\ last_call.op = "register_compiler"
    /\ HasKey(last_call.before.instances, last_call.backend_name)
    /\ Item(last_call.before.compilers, last_call.backend_name)
           # last_call.compiler_class
    /\ ~IsError(last_call.raised)
    /\ ~HasKey(_instances, last_call.backend_name)

\* an unknown backend was unregistered while another one is cached
C27_WitnessUnknown ==
    /\ last_call.op = "unregister_compiler"
    /\ ~HasKey(last_call.before.compilers, last_call.backend_name)
    /\ Len(_instances) = 1

(***************************************************************************)
(* C28: the optimizer and the meaning of a where tree                      *)
(***************************************************************************)
\* the leaf conditions of a tree, by structural key
RECURSIVE LeafKeys(_)
LeafKeys(node) ==
    IF node = None THEN {}
    ELSE IF IsFieldCondition(node) THEN {_get_condition_key(node)}
    ELSE UNION {LeafKeys(node.conditions[i]) : i \in 1..Len(node.conditions)}

\* the truth value of a tree for one document, the document given by the
\* truth values of the leaf conditions: $and holds when every child holds,
\* $or when some child holds, $nor when no child holds; no where clause
\* matches every document
RECURSIVE Eval(_, _)
Eval(node, truth) ==
    IF node = None THEN TRUE
    ELSE IF IsFieldCondition(node) THEN truth[_get_condition_key(node)]
    ELSE LET holds(i) == Eval(node.conditions[i], truth)
             children == 1..Len(node.conditions)
         IN  IF node.operator = opAnd THEN \A i \in children : holds(i)
             ELSE IF node.operator = opOr THEN \E i \in children : holds(i)
             ELSE ~\E i \in children : holds(i)

SameMeaning(tree, optimized) ==
    \A truth \in [LeafKeys(tree) -> BOOLEAN] :
        Eval(optimized, truth) = Eval(tree, truth)

\* C28: for every where tree of $and / $or / $nor nodes the pipeline builds
\* and every assignment of truth values to its leaf conditions, the
\* optimized tree has the truth value of the built tree.
C28_OptimizationPreservesMeaning ==
    (pc = "done" /\ ast.where # None) =>
        SameMeaning(ast.where, optimized_ast.where)

(***************************************************************************)
(* C29: operator spellings and allowed_operators                           *)
(***************************************************************************)
\* the comparison operators a where clause uses as written in the request,
\* by canonical token: the keys of the fields' condition mappings that name
\* a comparison operator in any case, with or without "$", and $eq for a
\* field given a plain value
RECURSIVE WrittenOperators(_)
WrittenOperators(where) ==
    IF ~IsDict(where) THEN {}
    ELSE UNION {LET e == where.items[i]
                IN  IF IsLogicalName(e.k)
                    THEN IF IsList(e.v)
                         THEN UNION {WrittenOperators(e.v.items[j]) :
                                         j \in 1..Len(e.v.items)}
                         ELSE {}
                    ELSE IF startswith(e.k, "$") THEN {}
                    ELSE IF IsDict(e.v)
                    THEN {CanonicalName(e.v.items[j].k) :
                              j \in {j \in 1..Len(e.v.items) :
                                         IsComparisonName(e.v.items[j].k)}}
                    ELSE {opEq} : i \in 1..Len(where.items)}

\* the validator has been called on the normalized request
Validated == normalized_input # Unset /\ pc # "validate"

RefusedOperators ==
    IF security_policy.allowed_operators = None THEN {}
    ELSE {op \in WrittenOperators(parsed_input.where) :
              ~Contains(security_policy.allowed_operators, op)}

\* C29: once the validator has run on a request whose where clause uses,
\* in any spelling, a comparison operator whose canonical token is not in
\* allowed_operators, the request has ended in SecurityError and there is
\* no AST.
C29_NoSpellingBypass ==
    (Validated /\ RefusedOperators # {}) =>
        /\ raised.kind = "SecurityError"
        /\ ast = Unset
        /\ optimized_ast = Unset

(***************************************************************************)
(* C30: a whitelist that is set but empty                                  *)
(***************************************************************************)
EmptyWhitelist ==
    /\ security_policy.allowed_fields # None
    /\ security_policy.allowed_fields.elems = {}

\* C30: with allowed_fields set to an empty collection a request that
\* names a field in where, order or fields is refused by the validator
\* with SecurityError and no AST is built: the empty whitelist is not
\* taken for an absent one.
C30_EmptyWhitelistPermitsNothing ==
    (/\ Validated
     /\ EmptyWhitelist
     /\ \E c \in Clauses : ClauseFields(normalized_input, c) # {})
    => /\ ValidatorRaised("SecurityError")
       /\ ast = Unset

====
